---- MODULE Spec2Model ----
(***************************************************************************)
(* A state-machine model of core/state/statedb.go: the account-state       *)
(* database (StateDB) with its live-object cache, journal, revisions,      *)
(* access list, logs, preimages, refund counter, snapshot caches and the   *)
(* Finalise / IntermediateRoot / Commit pipeline.                          *)
(*                                                                         *)
(* journal.go, state_object.go and access_list.go are not part of the      *)
(* sources at hand; the operators that stand for them (marked "spec:")     *)
(* follow sections 4.2, 4.3 and 4.5 of the specification.                  *)
(***************************************************************************)
EXTENDS Integers, Sequences, FiniteSets, TLC

(***************************************************************************)
(* Bounds of the model.                                                    *)
(***************************************************************************)
NumAddrs == 2
MaxAmount == 1
MaxBalance == 2
MaxDebt == 1
MaxNonce == 1
MaxAppends == 3
MaxRevisions == 2
MaxLogs == 2
RefundBits == 2

Addrs == 1..NumAddrs
Amounts == 0..MaxAmount
Nonces == 0..MaxNonce
Codes == 0..1              \* 0 is the empty code (emptyCodeHash)
Slots == {1}               \* storage keys
Vals == 0..1               \* storage values, 0 is the zero hash
NoVal == 0 - 1             \* "key not in the map"
TxHashes == 0..1           \* 0 is the zero hash an instance starts with
Preimages == {1}           \* hashes handed to AddPreimage
Insts == 1..2              \* StateDB instances: 1 is made by New, 2 by Copy
RefundMod == 2 ^ RefundBits

None == <<>>
Some(x) == <<x>>
IsSome(o) == o /= <<>>
Get(o) == o[1]

EmptyStorage == [k \in Slots |-> NoVal]
ZeroStorage == [k \in Slots |-> 0]

(***************************************************************************)
(* VARIABLES                                                               *)
(*   sdb          the StateDB instances (one record per instance)          *)
(*   missingNodes addresses whose account-trie path has an unresolvable    *)
(*                node: TryGet, TryUpdate and TryDelete fail on them       *)
(*   snapBase     the flat snapshot layer of the root the state was        *)
(*                opened at                                                *)
(*   panicked     the panic that aborted the process, "" when none         *)
(*   last         the most recent call: its kind and the instance called   *)
(*   taken        per instance: the revision ids handed out by Snapshot    *)
(*                and not invalidated since, each with what the reads      *)
(*                returned when it was handed out                          *)
(*   appended     the number of journal entries appended so far, which     *)
(*                MaxAppends caps                                          *)
(*   snft         the NFT records, the mint watermarks, the injected SNFT  *)
(*                batches and the logs the SNFT operations write           *)
(*   staking      the validator list and the pledged balances              *)
(*   prefetcher   the trie prefetcher attached to each instance, if any    *)
(*   header       the block header the extra-data writers work on          *)
(***************************************************************************)
VARIABLES sdb, missingNodes, snapBase, panicked, last, taken, appended,
          snft, staking, prefetcher, header

\* the SNFT and validator records of a StateDB on which none of their
\* operations has run
NoSnft == <<>>
NoStaking == <<>>

\* no block header is at hand
NoHeader == <<>>

\* no instance has a trie prefetcher
NoPrefetcher == [i \in 1..2 |-> <<>>]

vars == <<sdb, missingNodes, snapBase, panicked, last, taken, appended,
          snft, staking, prefetcher, header>>

(***************************************************************************)
(* Account records and state objects.                                      *)
(***************************************************************************)

\* newObject(db, address, data): the object keeps a pointer to its StateDB
newObject(s, data) ==
  [db |-> s.id, balance |-> data.balance, nonce |-> data.nonce, code |-> data.code,
   root |-> data.root, worm |-> data.worm,
   dirtyCode |-> FALSE, suicided |-> FALSE, deleted |-> FALSE,
   dirtyStorage |-> EmptyStorage, pendingStorage |-> EmptyStorage]

\* Account{}: the zero account createObject starts from
EmptyAccount ==
  [garbled |-> FALSE, nonce |-> 0, balance |-> 0, root |-> ZeroStorage,
   code |-> 0, worm |-> FALSE]

\* rlp.EncodeToBytes(obj): the account payload of a state object
EncodeAccount(obj) ==
  [garbled |-> FALSE, nonce |-> obj.nonce, balance |-> obj.balance,
   root |-> obj.root, code |-> obj.code, worm |-> obj.worm]

\* rlp.DecodeBytes(enc, data): fails on bytes that are no account
DecodeOk(enc) == ~enc.garbled

\* spec: stateObject.empty
empty(obj) == obj.nonce = 0 /\ obj.balance = 0 /\ obj.code = 0

\* spec: stateObject.GetCommittedState (pending, then origin/trie)
ObjCommittedState(obj, key) ==
  IF obj.pendingStorage[key] /= NoVal THEN obj.pendingStorage[key]
  ELSE obj.root[key]

\* spec: stateObject.GetState (dirty first)
ObjGetState(obj, key) ==
  IF obj.dirtyStorage[key] /= NoVal THEN obj.dirtyStorage[key]
  ELSE ObjCommittedState(obj, key)

\* spec: stateObject.finalise moves dirty storage into pending storage
finalise(obj) ==
  [obj EXCEPT
     !.pendingStorage = [k \in Slots |->
        IF obj.dirtyStorage[k] /= NoVal THEN obj.dirtyStorage[k] ELSE @[k]],
     !.dirtyStorage = EmptyStorage]

\* spec: stateObject.updateRoot flushes pending storage into the storage trie
updateRoot(obj) ==
  LET f == finalise(obj) IN
  [f EXCEPT
     !.root = [k \in Slots |->
        IF f.pendingStorage[k] /= NoVal THEN f.pendingStorage[k] ELSE @[k]],
     !.pendingStorage = EmptyStorage]

\* spec: stateObject.deepCopy(db): a copy that belongs to db
deepCopy(obj, db) == [obj EXCEPT !.db = db]

(***************************************************************************)
(* One StateDB instance as New (statedb.go:128) leaves it.  An instance    *)
(* that does not exist yet has alive = FALSE.                              *)
(***************************************************************************)
NoError == <<>>

\* spec: newAccessList
newAccessList == [addresses |-> {}, slots |-> {}]

New(root, withSnap) ==
  [alive |-> TRUE,
   id |-> 1,
   trie |-> root,
   snapOn |-> withSnap,
   snapDestructs |-> {},
   snapAccounts |-> [a \in Addrs |-> None],
   snapStorage |-> [a \in Addrs |-> None],
   stateObjects |-> [a \in Addrs |-> None],
   stateObjectsPending |-> {},
   stateObjectsDirty |-> {},
   dbErr |-> NoError,
   refund |-> 0,
   thash |-> 0,
   txIndex |-> 0,
   logs |-> [h \in TxHashes |-> <<>>],
   logSize |-> 0,
   preimages |-> {},
   accessList |-> newAccessList,
   journal |-> <<>>,
   dirties |-> [a \in Addrs |-> 0],
   validRevisions |-> <<>>,
   nextRevisionId |-> 0]

\* the instance slot Copy has not filled yet
NoInstance ==
  [New([a \in Addrs |-> None], FALSE) EXCEPT !.alive = FALSE, !.id = 2]

\* the address journal.go singles out: a touch of it stays in journal.dirties
ripemd == 2

\* setError remembers the first non-nil error it is called with
\* a setError that remembers the last error instead of the first
SetErrorLastWins(s, err) == [s EXCEPT !.dbErr = err]

setError(s, err) ==
  IF s.dbErr = NoError THEN [s EXCEPT !.dbErr = err] ELSE s

setStateObject(s, addr, obj) ==
  [s EXCEPT !.stateObjects[addr] = Some(obj)]

\* spec: journal.append, with the dirties count of the entry's address
\* (dirtied is 0 for the entries that name no state object)
append(s, entry, dirtied) ==
  [s EXCEPT !.journal = Append(@, entry),
            !.dirties = IF dirtied \in Addrs
                        THEN [@ EXCEPT ![dirtied] = @ + 1] ELSE @]

(***************************************************************************)
(* Reading a state object: the live set, then the snapshot layer, then the *)
(* account trie.  The result is the instance after the call (the object    *)
(* may have been inserted into the live set, an error memoised) and the    *)
(* object found, None for nil.                                             *)
(***************************************************************************)
getDeletedStateObject(s, addr) ==
  IF IsSome(s.stateObjects[addr]) THEN [s |-> s, obj |-> s.stateObjects[addr]]
  ELSE IF s.snapOn /\ IsSome(snapBase[addr]) /\ DecodeOk(Get(snapBase[addr]))
       THEN \* snap.Account answered: map it into an Account
            LET obj == newObject(s, Get(snapBase[addr])) IN
            [s |-> setStateObject(s, addr, obj), obj |-> Some(obj)]
  ELSE IF s.snapOn /\ snapBase[addr] = None
       THEN \* snap.Account answered nil: the account does not exist
            [s |-> s, obj |-> None]
  \* snapshot unavailable or reading from it failed: load from the trie
  ELSE IF addr \in missingNodes
       THEN [s |-> setError(s, <<"getDeleteStateObject", addr>>), obj |-> None]
  ELSE IF s.trie[addr] = None THEN [s |-> s, obj |-> None]
  ELSE IF ~DecodeOk(Get(s.trie[addr]))
       THEN \* log.Error only: the decode error is not memoised
            [s |-> s, obj |-> None]
  ELSE LET obj == newObject(s, Get(s.trie[addr])) IN
       [s |-> setStateObject(s, addr, obj), obj |-> Some(obj)]

\* getStateObject: nil for an object that is not found or was deleted
getStateObject(s, addr) ==
  LET r == getDeletedStateObject(s, addr) IN
  IF IsSome(r.obj) /\ ~Get(r.obj).deleted THEN r ELSE [s |-> r.s, obj |-> None]

\* a createObject that journals every previous object as not yet destructed
createObjectForgetsDestruct(s, addr) ==
  LET r == getDeletedStateObject(s, addr)
      prev == r.obj
      s1 == IF r.s.snapOn /\ IsSome(prev)
            THEN [r.s EXCEPT !.snapDestructs = @ \cup {addr}] ELSE r.s
      newobj == newObject(s, EmptyAccount)
      s2 == IF prev = None
            THEN append(s1, [kind |-> "createObject", account |-> addr], addr)
            ELSE append(s1, [kind |-> "resetObject", account |-> addr,
                             prev |-> Get(prev), prevdestruct |-> FALSE], 0)
  IN [s |-> setStateObject(s2, addr, newobj),
      prev |-> IF IsSome(prev) /\ ~Get(prev).deleted THEN prev ELSE None]

\* createObject: a fresh object at addr; journals create or reset
createObject(s, addr) ==
  LET r == getDeletedStateObject(s, addr)
      prev == r.obj
      prevdestruct == r.s.snapOn /\ IsSome(prev) /\ addr \in r.s.snapDestructs
      s1 == IF r.s.snapOn /\ IsSome(prev)
            THEN [r.s EXCEPT !.snapDestructs = @ \cup {addr}] ELSE r.s
      newobj == newObject(s, EmptyAccount)
      s2 == IF prev = None
            THEN append(s1, [kind |-> "createObject", account |-> addr], addr)
            ELSE append(s1, [kind |-> "resetObject", account |-> addr,
                             prev |-> Get(prev), prevdestruct |-> prevdestruct], 0)
  IN [s |-> setStateObject(s2, addr, newobj),
      prev |-> IF IsSome(prev) /\ ~Get(prev).deleted THEN prev ELSE None]

\* GetOrNewAccountStateObject: the object at addr after the call is the one
\* the caller goes on to write
GetOrNewAccountStateObject(s, addr) ==
  LET r == getStateObject(s, addr) IN
  IF IsSome(r.obj)
  THEN [r.s EXCEPT !.stateObjects[addr] = Some([Get(@) EXCEPT !.worm = TRUE])]
  ELSE LET c == createObject(r.s, addr)
           bal == IF IsSome(c.prev) THEN Get(c.prev).balance ELSE 0
       IN [c.s EXCEPT !.stateObjects[addr] =
             Some([Get(@) EXCEPT !.balance = bal, !.worm = TRUE])]

objAt(s, addr) == Get(s.stateObjects[addr])

setObj(s, addr, o) == [s EXCEPT !.stateObjects[addr] = Some(o)]

(***************************************************************************)
(* spec: the setters of a state object (section 4.2).  Each appends the    *)
(* reverse of the mutation to the journal before it writes.                *)
(***************************************************************************)
\* spec: stateObject.touch
touch(s, addr) ==
  LET s1 == append(s, [kind |-> "touch", account |-> addr], addr) IN
  IF addr = ripemd
  THEN [s1 EXCEPT !.dirties[addr] = @ + 1]   \* journal.dirty(addr)
  ELSE s1

\* spec: stateObject.SetBalance
soSetBalance(s, addr, amount) ==
  LET o == objAt(s, addr) IN
  setObj(append(s, [kind |-> "balance", account |-> addr, prev |-> o.balance], addr),
         addr, [o EXCEPT !.balance = amount])

\* spec: stateObject.AddBalance; adding zero only touches an empty object
soAddBalance(s, addr, amount) ==
  IF amount = 0
  THEN IF empty(objAt(s, addr)) THEN touch(s, addr) ELSE s
  ELSE soSetBalance(s, addr, objAt(s, addr).balance + amount)

\* spec: stateObject.SubBalance
soSubBalance(s, addr, amount) ==
  IF amount = 0 THEN s
  ELSE soSetBalance(s, addr, objAt(s, addr).balance - amount)

\* spec: stateObject.SetNonce
soSetNonce(s, addr, nonce) ==
  LET o == objAt(s, addr) IN
  setObj(append(s, [kind |-> "nonce", account |-> addr, prev |-> o.nonce], addr),
         addr, [o EXCEPT !.nonce = nonce])

\* spec: stateObject.SetCode
soSetCode(s, addr, code) ==
  LET o == objAt(s, addr) IN
  setObj(append(s, [kind |-> "code", account |-> addr, prev |-> o.code], addr),
         addr, [o EXCEPT !.code = code, !.dirtyCode = TRUE])

\* spec: stateObject.SetState; writing the value a slot already has is a no-op
soSetState(s, addr, key, value) ==
  LET o == objAt(s, addr)
      prev == ObjGetState(o, key)
  IN IF prev = value THEN s
     ELSE setObj(append(s, [kind |-> "storage", account |-> addr, key |-> key,
                            prev |-> prev], addr),
                 addr, [o EXCEPT !.dirtyStorage[key] = value])

(***************************************************************************)
(* spec: the access list (section 4.5).                                    *)
(***************************************************************************)
ContainsAddress(al, addr) == addr \in al.addresses

Contains(al, addr, slot) == <<addr, slot>> \in al.slots

\* spec: accessList.AddAddress, TRUE when the address was not there
alAddAddress(al, addr) == [al EXCEPT !.addresses = @ \cup {addr}]

\* spec: accessList.AddSlot
alAddSlot(al, addr, slot) ==
  [al EXCEPT !.addresses = @ \cup {addr}, !.slots = @ \cup {<<addr, slot>>}]

(***************************************************************************)
(* spec: the journal (section 4.3).                                        *)
(***************************************************************************)
\* the address an entry dirties, 0 when it names no state object
dirtied(e) ==
  IF e.kind \in {"createObject", "suicide", "balance", "nonce", "code",
                 "storage", "touch"}
  THEN e.account ELSE 0

\* the revert action of one entry
revertEntry(s, e) ==
  CASE e.kind = "createObject" ->
         [s EXCEPT !.stateObjects[e.account] = None,
                   !.stateObjectsDirty = @ \ {e.account}]
    [] e.kind = "resetObject" ->
         LET s1 == setStateObject(s, e.account, e.prev) IN
         IF ~e.prevdestruct /\ s.snapOn
         THEN [s1 EXCEPT !.snapDestructs = @ \ {e.account}] ELSE s1
    [] e.kind = "suicide" ->
         IF IsSome(s.stateObjects[e.account]) /\ ~objAt(s, e.account).deleted
         THEN setObj(s, e.account,
                [objAt(s, e.account) EXCEPT !.suicided = e.prev,
                                            !.balance = e.prevbalance])
         ELSE s
    [] e.kind = "balance" ->
         setObj(s, e.account, [objAt(s, e.account) EXCEPT !.balance = e.prev])
    [] e.kind = "nonce" ->
         setObj(s, e.account, [objAt(s, e.account) EXCEPT !.nonce = e.prev])
    [] e.kind = "code" ->
         setObj(s, e.account,
                [objAt(s, e.account) EXCEPT !.code = e.prev, !.dirtyCode = TRUE])
    [] e.kind = "storage" ->
         setObj(s, e.account,
                [objAt(s, e.account) EXCEPT !.dirtyStorage[e.key] = e.prev])
    [] e.kind = "refund" -> [s EXCEPT !.refund = e.prev]
    [] e.kind = "addLog" ->
         [s EXCEPT !.logs[e.txhash] = SubSeq(@, 1, Len(@) - 1),
                   !.logSize = @ - 1]
    [] e.kind = "addPreimage" -> [s EXCEPT !.preimages = @ \ {e.hash}]
    [] e.kind = "touch" -> s
    [] e.kind = "accessListAddAccount" ->
         [s EXCEPT !.accessList.addresses = @ \ {e.address}]
    [] e.kind = "accessListAddSlot" ->
         [s EXCEPT !.accessList.slots = @ \ {<<e.address, e.slot>>}]

RECURSIVE revert(_, _)
\* journal.revert: undo the entries back to index snapshot, newest first
revert(s, snapshot) ==
  IF Len(s.journal) <= snapshot THEN s
  ELSE LET e == s.journal[Len(s.journal)]
           s1 == revertEntry(s, e)
           d == dirtied(e)
           s2 == [s1 EXCEPT
                    !.journal = SubSeq(s.journal, 1, Len(s.journal) - 1),
                    !.dirties = IF d \in Addrs
                                THEN [@ EXCEPT ![d] = @ - 1] ELSE @]
       IN revert(s2, snapshot)

(***************************************************************************)
(* The operations of StateDB, each as the instance it leaves behind.       *)
(***************************************************************************)
\* AddLog numbering a log within its transaction instead of within the block
AddLogPerTx(s) ==
  LET s1 == append(s, [kind |-> "addLog", txhash |-> s.thash], 0) IN
  [s1 EXCEPT !.logs[s.thash] =
               Append(@, [TxHash |-> s.thash, TxIndex |-> s.txIndex,
                          Index |-> Len(s.logs[s.thash])]),
             !.logSize = @ + 1]

AddLog(s) ==
  LET s1 == append(s, [kind |-> "addLog", txhash |-> s.thash], 0) IN
  [s1 EXCEPT !.logs[s.thash] =
               Append(@, [TxHash |-> s.thash, TxIndex |-> s.txIndex,
                          Index |-> s.logSize]),
             !.logSize = @ + 1]

AddPreimage(s, hash) ==
  IF hash \notin s.preimages
  THEN [append(s, [kind |-> "addPreimage", hash |-> hash], 0)
          EXCEPT !.preimages = @ \cup {hash}]
  ELSE s

\* refund is a uint64: the addition wraps
AddRefund(s, gas) ==
  [append(s, [kind |-> "refund", prev |-> s.refund], 0)
     EXCEPT !.refund = (@ + gas) % RefundMod]

\* SubRefund panics, after it has appended to the journal, when gas > refund
SubRefund(s, gas) ==
  LET s1 == append(s, [kind |-> "refund", prev |-> s.refund], 0) IN
  IF gas > s.refund THEN s1 ELSE [s1 EXCEPT !.refund = @ - gas]

SubRefundPanics(s, gas) == gas > s.refund

\* Exist, Empty, GetBalance, GetNonce, GetCode, GetState and HasSuicided all
\* start with getStateObject, which is what they leave behind
Read(s, addr) == getStateObject(s, addr).s

\* GetOrNewNFTStateObject as a lookup that creates nothing
GetNFTStateObjectOnly(s, addr) == getStateObject(s, addr).s

\* the object found keeps its extension; a created one has no Worm extension
\* (the Nft record itself is not part of an object here)
GetOrNewNFTStateObject(s, addr) ==
  LET r == getStateObject(s, addr) IN
  IF IsSome(r.obj) THEN r.s ELSE createObject(r.s, addr).s

\* the getters of the account and NFT records, each as the instance it
\* leaves behind
GetPledgedBalance(s, addr) == GetOrNewAccountStateObject(s, addr)

IsExistNFT(s, addr) == GetOrNewNFTStateObject(s, addr)

Exist(s, addr) == IsSome(getStateObject(s, addr).obj)

Empty(s, addr) ==
  LET r == getStateObject(s, addr) IN r.obj = None \/ empty(Get(r.obj))

GetBalance(s, addr) ==
  LET r == getStateObject(s, addr) IN
  IF IsSome(r.obj) THEN Get(r.obj).balance ELSE 0

GetNonce(s, addr) ==
  LET r == getStateObject(s, addr) IN
  IF IsSome(r.obj) THEN Get(r.obj).nonce ELSE 0

GetCode(s, addr) ==
  LET r == getStateObject(s, addr) IN
  IF IsSome(r.obj) THEN Get(r.obj).code ELSE 0

GetState(s, addr, hash) ==
  LET r == getStateObject(s, addr) IN
  IF IsSome(r.obj) THEN ObjGetState(Get(r.obj), hash) ELSE 0

GetCommittedState(s, addr, hash) ==
  LET r == getStateObject(s, addr) IN
  IF IsSome(r.obj) THEN ObjCommittedState(Get(r.obj), hash) ELSE 0

HasSuicided(s, addr) ==
  LET r == getStateObject(s, addr) IN
  IF IsSome(r.obj) THEN Get(r.obj).suicided ELSE FALSE

GetRefund(s) == s.refund

AddBalance(s, addr, amount) ==
  soAddBalance(GetOrNewAccountStateObject(s, addr), addr, amount)

SubBalance(s, addr, amount) ==
  soSubBalance(GetOrNewAccountStateObject(s, addr), addr, amount)

SetBalance(s, addr, amount) ==
  soSetBalance(GetOrNewAccountStateObject(s, addr), addr, amount)

SetNonce(s, addr, nonce) ==
  soSetNonce(GetOrNewAccountStateObject(s, addr), addr, nonce)

SetCode(s, addr, code) ==
  soSetCode(GetOrNewAccountStateObject(s, addr), addr, code)

SetState(s, addr, key, value) ==
  soSetState(GetOrNewAccountStateObject(s, addr), addr, key, value)

\* a Suicide whose journal entry does not keep the balance
SuicideForgetsBalance(s, addr) ==
  LET r == getStateObject(s, addr) IN
  IF r.obj = None THEN r.s
  ELSE setObj(append(r.s, [kind |-> "suicide", account |-> addr,
                           prev |-> Get(r.obj).suicided,
                           prevbalance |-> 0], addr),
              addr, [Get(r.obj) EXCEPT !.suicided = TRUE, !.balance = 0])

\* what Suicide returns
SuicideReturns(s, addr) == getStateObject(s, addr).obj /= None

\* Suicide: FALSE (and nothing journaled) when there is no object
Suicide(s, addr) ==
  LET r == getStateObject(s, addr) IN
  IF r.obj = None THEN r.s
  ELSE setObj(append(r.s, [kind |-> "suicide", account |-> addr,
                           prev |-> Get(r.obj).suicided,
                           prevbalance |-> Get(r.obj).balance], addr),
              addr, [Get(r.obj) EXCEPT !.suicided = TRUE, !.balance = 0])

\* a CreateAccount that always makes a new object and carries nothing over
CreateAccountAnew(s, addr) == createObject(s, addr).s

CreateAccount(s, addr) == GetOrNewAccountStateObject(s, addr)

Prepare(s, thash, ti) ==
  [s EXCEPT !.thash = thash, !.txIndex = ti, !.accessList = newAccessList]

\* an AddAddressToAccessList that forgets the journal entry
AddAddressNoJournal(s, addr) ==
  [s EXCEPT !.accessList = alAddAddress(@, addr)]

AddAddressToAccessList(s, addr) ==
  IF ~ContainsAddress(s.accessList, addr)
  THEN [append(s, [kind |-> "accessListAddAccount", address |-> addr], 0)
          EXCEPT !.accessList = alAddAddress(@, addr)]
  ELSE s

\* an AddSlotToAccessList that journals the slot only
AddSlotNoAccountEntry(s, addr, slot) ==
  LET s1 == IF ~Contains(s.accessList, addr, slot)
            THEN append(s, [kind |-> "accessListAddSlot", address |-> addr,
                            slot |-> slot], 0)
            ELSE s
  IN [s1 EXCEPT !.accessList = alAddSlot(@, addr, slot)]

AddSlotToAccessList(s, addr, slot) ==
  LET addrMod == ~ContainsAddress(s.accessList, addr)
      slotMod == ~Contains(s.accessList, addr, slot)
      s1 == IF addrMod
            THEN append(s, [kind |-> "accessListAddAccount", address |-> addr], 0)
            ELSE s
      s2 == IF slotMod
            THEN append(s1, [kind |-> "accessListAddSlot", address |-> addr,
                             slot |-> slot], 0)
            ELSE s1
  IN [s2 EXCEPT !.accessList = alAddSlot(@, addr, slot)]

(***************************************************************************)
(* Revisions.                                                              *)
(***************************************************************************)
Snapshot(s) ==
  [s EXCEPT !.nextRevisionId = @ + 1,
            !.validRevisions =
               Append(@, [id |-> s.nextRevisionId, journalIndex |-> Len(s.journal)])]

RECURSIVE Search(_, _, _, _)
\* sort.Search over validRevisions[i].id >= revid, indices from 0
Search(i, j, revs, revid) ==
  IF i < j
  THEN LET h == (i + j) \div 2 IN
       IF ~(revs[h + 1].id >= revid)
       THEN Search(h + 1, j, revs, revid)
       ELSE Search(i, h, revs, revid)
  ELSE i

\* RevertToSnapshot panics when the id is not in the stack of valid revisions
RevertPanics(s, revid) ==
  LET idx == Search(0, Len(s.validRevisions), s.validRevisions, revid) IN
  idx = Len(s.validRevisions) \/ s.validRevisions[idx + 1].id /= revid

\* a RevertToSnapshot that replays the journal only down to the entry after
\* the snapshot's
RevertKeepsFirstEntry(s, revid) ==
  LET idx == Search(0, Len(s.validRevisions), s.validRevisions, revid) IN
  IF RevertPanics(s, revid) THEN s
  ELSE [revert(s, s.validRevisions[idx + 1].journalIndex + 1)
          EXCEPT !.validRevisions = SubSeq(s.validRevisions, 1, idx)]

\* a RevertToSnapshot that truncates the stack one entry too late
\* (validRevisions[:idx+1]): the revision reverted to stays on it
RevertKeepsRevision(s, revid) ==
  LET idx == Search(0, Len(s.validRevisions), s.validRevisions, revid) IN
  IF RevertPanics(s, revid) THEN s
  ELSE [revert(s, s.validRevisions[idx + 1].journalIndex)
          EXCEPT !.validRevisions = SubSeq(s.validRevisions, 1, idx + 1)]

RevertToSnapshot(s, revid) ==
  LET idx == Search(0, Len(s.validRevisions), s.validRevisions, revid) IN
  IF RevertPanics(s, revid) THEN s
  ELSE [revert(s, s.validRevisions[idx + 1].journalIndex)
          EXCEPT !.validRevisions = SubSeq(s.validRevisions, 1, idx)]

(***************************************************************************)
(* Finalise, IntermediateRoot, Commit.                                     *)
(***************************************************************************)
\* a clearJournalAndRefund that drops the revisions only together with the
\* journal
ClearOnlyWithEntries(s) ==
  IF Len(s.journal) > 0
  THEN [s EXCEPT !.journal = <<>>, !.dirties = [a \in Addrs |-> 0],
                 !.refund = 0, !.validRevisions = <<>>]
  ELSE s

clearJournalAndRefund(s) ==
  LET s1 == IF Len(s.journal) > 0
            THEN [s EXCEPT !.journal = <<>>, !.dirties = [a \in Addrs |-> 0],
                           !.refund = 0]
            ELSE s
  IN [s1 EXCEPT !.validRevisions = <<>>]

\* a loop body that deletes empty objects whatever deleteEmptyObjects says
FinaliseDeletesEveryEmpty(s, addr, deleteEmptyObjects) ==
  IF s.stateObjects[addr] = None THEN s
  ELSE LET o == objAt(s, addr)
           s1 == IF o.suicided \/ empty(o)
                 THEN LET d == setObj(s, addr, [o EXCEPT !.deleted = TRUE]) IN
                      IF s.snapOn
                      THEN [d EXCEPT !.snapDestructs = @ \cup {addr},
                                     !.snapAccounts[addr] = None,
                                     !.snapStorage[addr] = None]
                      ELSE d
                 ELSE setObj(s, addr, finalise(o))
       IN [s1 EXCEPT !.stateObjectsPending = @ \cup {addr},
                     !.stateObjectsDirty = @ \cup {addr}]

\* a loop body that marks an address of journal.dirties pending and dirty
\* whether or not it has an object
FinaliseMarksMissing(s, addr, deleteEmptyObjects) ==
  IF s.stateObjects[addr] = None
  THEN [s EXCEPT !.stateObjectsPending = @ \cup {addr},
                 !.stateObjectsDirty = @ \cup {addr}]
  ELSE LET o == objAt(s, addr)
           s1 == IF o.suicided \/ (deleteEmptyObjects /\ empty(o))
                 THEN LET d == setObj(s, addr, [o EXCEPT !.deleted = TRUE]) IN
                      IF s.snapOn
                      THEN [d EXCEPT !.snapDestructs = @ \cup {addr},
                                     !.snapAccounts[addr] = None,
                                     !.snapStorage[addr] = None]
                      ELSE d
                 ELSE setObj(s, addr, finalise(o))
       IN [s1 EXCEPT !.stateObjectsPending = @ \cup {addr},
                     !.stateObjectsDirty = @ \cup {addr}]

\* the body of Finalise's loop for one address of journal.dirties
FinaliseOne(s, addr, deleteEmptyObjects) ==
  IF s.stateObjects[addr] = None THEN s
  ELSE LET o == objAt(s, addr)
           s1 == IF o.suicided \/ (deleteEmptyObjects /\ empty(o))
                 THEN LET d == setObj(s, addr, [o EXCEPT !.deleted = TRUE]) IN
                      IF s.snapOn
                      THEN [d EXCEPT !.snapDestructs = @ \cup {addr},
                                     !.snapAccounts[addr] = None,
                                     !.snapStorage[addr] = None]
                      ELSE d
                 ELSE setObj(s, addr, finalise(o))
       IN [s1 EXCEPT !.stateObjectsPending = @ \cup {addr},
                     !.stateObjectsDirty = @ \cup {addr}]

RECURSIVE FinaliseLoop(_, _, _)
FinaliseLoop(s, todo, deleteEmptyObjects) ==
  IF todo = {} THEN s
  ELSE LET addr == CHOOSE a \in todo : TRUE IN
       FinaliseLoop(FinaliseOne(s, addr, deleteEmptyObjects), todo \ {addr},
                    deleteEmptyObjects)

\* the iterations of the loop touch disjoint objects and set entries, so the
\* order the map is ranged in does not show
Finalise(s, deleteEmptyObjects) ==
  clearJournalAndRefund(
    FinaliseLoop(s, {a \in Addrs : s.dirties[a] > 0}, deleteEmptyObjects))

\* updateStateObject: write the object's encoding to the account trie
\* an updateStateObject that gives up on the trie once an error is memoised
UpdateSkipsAfterError(s, addr) ==
  LET data == EncodeAccount(objAt(s, addr))
      s1 == IF s.dbErr /= NoError THEN s
            ELSE IF addr \in missingNodes
            THEN setError(s, <<"updateStateObject", addr>>)
            ELSE [s EXCEPT !.trie[addr] = Some(data)]
  IN IF s.snapOn THEN [s1 EXCEPT !.snapAccounts[addr] = Some(data)] ELSE s1

updateStateObject(s, addr) ==
  LET data == EncodeAccount(objAt(s, addr))
      s1 == IF addr \in missingNodes
            THEN setError(s, <<"updateStateObject", addr>>)
            ELSE [s EXCEPT !.trie[addr] = Some(data)]
  IN IF s.snapOn THEN [s1 EXCEPT !.snapAccounts[addr] = Some(data)] ELSE s1

\* deleteStateObject: remove the object from the account trie
deleteStateObject(s, addr) ==
  IF addr \in missingNodes
  THEN setError(s, <<"deleteStateObject", addr>>)
  ELSE [s EXCEPT !.trie[addr] = None]

\* obj.updateRoot(s.db), with the snapshot storage cache updateTrie fills
soUpdateRoot(s, addr) ==
  LET o == finalise(objAt(s, addr))
      written == {k \in Slots : o.pendingStorage[k] /= NoVal
                                /\ o.pendingStorage[k] /= o.root[k]}
      s1 == setObj(s, addr, updateRoot(objAt(s, addr)))
  IN IF s.snapOn /\ written /= {}
     THEN [s1 EXCEPT !.snapStorage[addr] =
             Some([k \in Slots |->
                IF k \in written THEN o.pendingStorage[k]
                ELSE IF IsSome(s.snapStorage[addr]) THEN Get(s.snapStorage[addr])[k]
                ELSE NoVal])]
     ELSE s1

RECURSIVE UpdateRoots(_, _)
UpdateRoots(s, todo) ==
  IF todo = {} THEN s
  ELSE LET addr == CHOOSE a \in todo : TRUE
           s1 == IF ~objAt(s, addr).deleted THEN soUpdateRoot(s, addr) ELSE s
       IN UpdateRoots(s1, todo \ {addr})

RECURSIVE WritePendingSkipsDeleted(_, _)
\* an IntermediateRoot that leaves the deleted objects in the account trie
WritePendingSkipsDeleted(s, order) ==
  IF order = <<>> THEN s
  ELSE LET addr == Head(order)
           s1 == IF objAt(s, addr).deleted THEN s
                 ELSE updateStateObject(s, addr)
       IN WritePendingSkipsDeleted(s1, Tail(order))

RECURSIVE WritePending(_, _)
\* the second loop of IntermediateRoot, over the pending addresses in the
\* order the map iteration yields them
WritePending(s, order) ==
  IF order = <<>> THEN s
  ELSE LET addr == Head(order)
           s1 == IF objAt(s, addr).deleted
                 THEN deleteStateObject(s, addr)
                 ELSE updateStateObject(s, addr)
       IN WritePending(s1, Tail(order))

\* a nil object among the pending or dirty addresses is dereferenced
NilPending(s) == \E a \in s.stateObjectsPending : s.stateObjects[a] = None

NilDirty(s) == \E a \in s.stateObjectsDirty : s.stateObjects[a] = None

\* the orders a Go map with these keys can be ranged in
Orders(set) ==
  {q \in UNION {[1..n -> set] : n \in {Cardinality(set)}} :
     \A i, j \in DOMAIN q : i /= j => q[i] /= q[j]}

IntermediateRoot(s, deleteEmptyObjects, order) ==
  LET s1 == Finalise(s, deleteEmptyObjects)
      s2 == UpdateRoots(s1, s1.stateObjectsPending)
      s3 == WritePending(s2, order)
  IN [s3 EXCEPT !.stateObjectsPending = {}]

\* what IntermediateRoot returns: s.trie.Hash(), here the trie's content
Hash(s) == s.trie

\* the pending set IntermediateRoot ranges over, known after its Finalise
PendingAfterFinalise(s, deleteEmptyObjects) ==
  Finalise(s, deleteEmptyObjects).stateObjectsPending

RECURSIVE CommitObjects(_, _)
\* Commit's loop over stateObjectsDirty: write code, commit storage tries
CommitObjects(s, todo) ==
  IF todo = {} THEN s
  ELSE LET addr == CHOOSE a \in todo : TRUE
           o == objAt(s, addr)
           s1 == IF ~o.deleted
                 THEN setObj(s, addr, [updateRoot(o) EXCEPT !.dirtyCode = FALSE])
                 ELSE s
       IN CommitObjects(s1, todo \ {addr})

CommitFails(s) == s.dbErr /= NoError

Commit(s, deleteEmptyObjects, order) ==
  IF CommitFails(s) THEN s
  ELSE LET s1 == IntermediateRoot(s, deleteEmptyObjects, order)
           s2 == CommitObjects(s1, s1.stateObjectsDirty)
           s3 == [s2 EXCEPT !.stateObjectsDirty = {}]
       IN IF s3.snapOn
          THEN [s3 EXCEPT !.snapOn = FALSE, !.snapDestructs = {},
                          !.snapAccounts = [a \in Addrs |-> None],
                          !.snapStorage = [a \in Addrs |-> None]]
          ELSE s3

(***************************************************************************)
(* Copy.                                                                   *)
(***************************************************************************)
\* the addresses whose objects Copy carries over: the journal's dirty ones
\* that are live, the pending ones and the dirty ones
CopiedAddrs(s) ==
  {a \in Addrs : s.dirties[a] > 0 /\ IsSome(s.stateObjects[a])}
    \cup s.stateObjectsPending \cup s.stateObjectsDirty

\* Copy dereferences s.stateObjects[addr] for every pending and dirty address
CopyPanics(s) == NilPending(s) \/ NilDirty(s)

\* a Copy that puts the original's objects into the new live set instead of
\* deep copies of them
CopySharesObjects(s) ==
  LET fromJournal == {a \in Addrs : s.dirties[a] > 0 /\ IsSome(s.stateObjects[a])}
      state == [NoInstance EXCEPT !.alive = TRUE]
  IN [state EXCEPT
        !.trie = s.trie,
        !.stateObjects = [a \in Addrs |->
           IF a \in CopiedAddrs(s) THEN s.stateObjects[a] ELSE None],
        !.stateObjectsPending = s.stateObjectsPending \cup fromJournal,
        !.stateObjectsDirty = s.stateObjectsDirty \cup fromJournal,
        !.refund = s.refund,
        !.logs = s.logs,
        !.logSize = s.logSize,
        !.preimages = s.preimages,
        !.accessList = s.accessList,
        !.snapOn = s.snapOn,
        !.snapDestructs = s.snapDestructs,
        !.snapAccounts = s.snapAccounts,
        !.snapStorage = s.snapStorage]

Copy(s) ==
  LET fromJournal == {a \in Addrs : s.dirties[a] > 0 /\ IsSome(s.stateObjects[a])}
      state == [NoInstance EXCEPT !.alive = TRUE]
  IN [state EXCEPT
        !.trie = s.trie,
        !.stateObjects = [a \in Addrs |->
           IF a \in CopiedAddrs(s)
           THEN Some(deepCopy(objAt(s, a), state.id)) ELSE None],
        !.stateObjectsPending = s.stateObjectsPending \cup fromJournal,
        !.stateObjectsDirty = s.stateObjectsDirty \cup fromJournal,
        !.refund = s.refund,
        !.logs = s.logs,
        !.logSize = s.logSize,
        !.preimages = s.preimages,
        !.accessList = s.accessList,
        !.snapOn = s.snapOn,
        !.snapDestructs = s.snapDestructs,
        !.snapAccounts = s.snapAccounts,
        !.snapStorage = s.snapStorage]

(***************************************************************************)
(* What the read interface of an instance returns.                         *)
(***************************************************************************)
View(s) ==
  [balance |-> [a \in Addrs |-> GetBalance(s, a)],
   nonce |-> [a \in Addrs |-> GetNonce(s, a)],
   code |-> [a \in Addrs |-> GetCode(s, a)],
   storage |-> [a \in Addrs |-> [k \in Slots |-> GetState(s, a, k)]],
   refund |-> GetRefund(s),
   logs |-> s.logs,
   logSize |-> s.logSize,
   preimages |-> s.preimages,
   accessList |-> s.accessList]

(***************************************************************************)
(* The state machine.  Every step is one call on one instance.  A panic    *)
(* aborts the process: nothing runs after it.                              *)
(***************************************************************************)
Other(i) == 3 - i

\* an object reachable from both live sets that belongs to one StateDB is one
\* heap object: a write through either instance shows in both
Shared(i, a) ==
  /\ sdb[Other(i)].alive
  /\ IsSome(sdb[i].stateObjects[a])
  /\ IsSome(sdb[Other(i)].stateObjects[a])
  /\ objAt(sdb[i], a).db = objAt(sdb[Other(i)], a).db

Sync(i, s2) ==
  [j \in Insts |->
     IF j = i THEN s2
     ELSE [sdb[j] EXCEPT !.stateObjects = [a \in Addrs |->
             IF Shared(i, a) /\ IsSome(s2.stateObjects[a])
                /\ objAt(s2, a).db = objAt(sdb[j], a).db
             THEN s2.stateObjects[a] ELSE @[a]]]]

\* the caps that keep the model finite
InBounds(s) ==
  /\ s.nextRevisionId <= MaxRevisions
  /\ s.logSize <= MaxLogs
  /\ \A a \in Addrs : IsSome(s.stateObjects[a]) =>
        /\ objAt(s, a).balance \in (0 - MaxDebt)..MaxBalance
        /\ objAt(s, a).nonce \in Nonces

\* the journal entries a call appended
Grown(i, s2) ==
  IF Len(s2.journal) > Len(sdb[i].journal)
  THEN Len(s2.journal) - Len(sdb[i].journal) ELSE 0

\* the record of a call: its kind, the instance, for a RevertToSnapshot the
\* number of journal entries it undid and what the reads returned when the
\* revision was handed out, and for a call made on two instances at once the
\* orders their maps were ranged in
Did(op, i) ==
  [op |-> op, inst |-> i, undone |-> 0, want |-> None, orders |-> <<>>]

Call(i, did, s2, tk) ==
  /\ panicked = ""
  /\ sdb[i].alive
  /\ InBounds(s2)
  /\ appended + Grown(i, s2) <= MaxAppends
  /\ sdb' = Sync(i, s2)
  /\ last' = did
  /\ taken' = [taken EXCEPT ![i] = tk]
  /\ appended' = appended + Grown(i, s2)
  /\ UNCHANGED <<missingNodes, snapBase, panicked, snft, staking, prefetcher,
                 header>>

Panic(i, did, s2, what) ==
  /\ panicked = ""
  /\ sdb[i].alive
  /\ InBounds(s2)
  /\ appended + Grown(i, s2) <= MaxAppends
  /\ sdb' = Sync(i, s2)
  /\ last' = did
  /\ panicked' = what
  /\ appended' = appended + Grown(i, s2)
  /\ UNCHANGED <<missingNodes, snapBase, taken, snft, staking, prefetcher,
                 header>>

OpRead(i, addr) == Call(i, Did("read", i), Read(sdb[i], addr), taken[i])

OpAddBalance(i, addr, amount) ==
  Call(i, Did("write", i), AddBalance(sdb[i], addr, amount), taken[i])

OpSubBalance(i, addr, amount) ==
  Call(i, Did("write", i), SubBalance(sdb[i], addr, amount), taken[i])

OpSetBalance(i, addr, amount) ==
  Call(i, Did("write", i), SetBalance(sdb[i], addr, amount), taken[i])

OpSetNonce(i, addr, nonce) ==
  Call(i, Did("write", i), SetNonce(sdb[i], addr, nonce), taken[i])

OpSetCode(i, addr, code) ==
  Call(i, Did("write", i), SetCode(sdb[i], addr, code), taken[i])

OpSetState(i, addr, key, value) ==
  Call(i, Did("write", i), SetState(sdb[i], addr, key, value), taken[i])

OpSuicide(i, addr) == Call(i, Did("write", i), Suicide(sdb[i], addr), taken[i])

OpCreateAccount(i, addr) ==
  Call(i, Did("write", i), CreateAccount(sdb[i], addr), taken[i])

OpAddLog(i) == Call(i, Did("write", i), AddLog(sdb[i]), taken[i])

OpAddPreimage(i, hash) ==
  Call(i, Did("write", i), AddPreimage(sdb[i], hash), taken[i])

OpAddRefund(i, gas) == Call(i, Did("write", i), AddRefund(sdb[i], gas), taken[i])

OpSubRefund(i, gas) ==
  IF SubRefundPanics(sdb[i], gas)
  THEN Panic(i, Did("write", i), SubRefund(sdb[i], gas), "RefundUnderflow")
  ELSE Call(i, Did("write", i), SubRefund(sdb[i], gas), taken[i])

OpAddAddressToAccessList(i, addr) ==
  Call(i, Did("write", i), AddAddressToAccessList(sdb[i], addr), taken[i])

OpAddSlotToAccessList(i, addr, slot) ==
  Call(i, Did("write", i), AddSlotToAccessList(sdb[i], addr, slot), taken[i])

\* Prepare replaces the access list without a journal entry: a revert to an
\* earlier Snapshot leads back to the fresh list
OpPrepare(i, thash, ti) ==
  Call(i, Did("Prepare", i), Prepare(sdb[i], thash, ti),
       [n \in DOMAIN taken[i] |->
          [taken[i][n] EXCEPT !.view.accessList = newAccessList]])

OpSnapshot(i) ==
  Call(i, Did("Snapshot", i), Snapshot(sdb[i]),
       Append(taken[i], [id |-> sdb[i].nextRevisionId, view |-> View(sdb[i])]))

\* the revisions older than revid
Older(seq, revid) == SelectSeq(seq, LAMBDA e : e.id < revid)

OpRevertToSnapshot(i, revid) ==
  IF RevertPanics(sdb[i], revid)
  THEN Panic(i, Did("RevertToSnapshot", i), RevertToSnapshot(sdb[i], revid),
             "InvalidRevision")
  ELSE Call(i, [Did("RevertToSnapshot", i) EXCEPT
                  !.undone = Len(sdb[i].journal)
                               - Len(RevertToSnapshot(sdb[i], revid).journal),
                  !.want = Some(taken[i][Len(Older(taken[i], revid)) + 1].view)],
            RevertToSnapshot(sdb[i], revid), Older(taken[i], revid))

OpFinalise(i, deleteEmptyObjects) ==
  Call(i, Did("Finalise", i), Finalise(sdb[i], deleteEmptyObjects), <<>>)

OpIntermediateRoot(i, deleteEmptyObjects) ==
  IF NilPending(Finalise(sdb[i], deleteEmptyObjects))
  THEN Panic(i, Did("IntermediateRoot", i), Finalise(sdb[i], deleteEmptyObjects),
             "nil pointer dereference")
  ELSE \E order \in Orders(PendingAfterFinalise(sdb[i], deleteEmptyObjects)) :
         Call(i, Did("IntermediateRoot", i),
              IntermediateRoot(sdb[i], deleteEmptyObjects, order), <<>>)

\* Commit returns an error, and does nothing else, when dbErr is set
OpCommit(i, deleteEmptyObjects) ==
  IF /\ ~CommitFails(sdb[i])
     /\ \/ NilPending(Finalise(sdb[i], deleteEmptyObjects))
        \/ NilDirty(Finalise(sdb[i], deleteEmptyObjects))
  THEN Panic(i, Did("Commit", i), Finalise(sdb[i], deleteEmptyObjects),
             "nil pointer dereference")
  ELSE \E order \in Orders(PendingAfterFinalise(sdb[i], deleteEmptyObjects)) :
         Call(i, Did(IF CommitFails(sdb[i]) THEN "CommitAborted" ELSE "Commit", i),
              Commit(sdb[i], deleteEmptyObjects, order),
              IF CommitFails(sdb[i]) THEN taken[i] ELSE <<>>)

OpCopy(i) ==
  /\ panicked = ""
  /\ sdb[i].alive
  /\ i = 1
  /\ ~sdb[2].alive
  /\ IF CopyPanics(sdb[i])
     THEN /\ panicked' = "nil pointer dereference"
          /\ UNCHANGED sdb
     ELSE /\ sdb' = [sdb EXCEPT ![2] = Copy(sdb[i])]
          /\ UNCHANGED panicked
  /\ last' = Did("Copy", i)
  /\ UNCHANGED <<missingNodes, snapBase, taken, appended, snft, staking,
                 prefetcher, header>>

(***************************************************************************)
(* Initial states.  The state is opened by New at a root whose trie holds  *)
(* a funded account at address 1; the flat snapshot layer of that root,    *)
(* when one is in use, has the same content.                               *)
(***************************************************************************)
FundedAccount == [EmptyAccount EXCEPT !.balance = 1, !.worm = TRUE]

\* bytes in the trie that do not decode to an account
GarbledAccount == [EmptyAccount EXCEPT !.garbled = TRUE]

HealthyRoot == [a \in Addrs |-> IF a = 1 THEN Some(FundedAccount) ELSE None]

InitWith(root, withSnap, missing) ==
  /\ sdb = [i \in Insts |-> IF i = 1 THEN New(root, withSnap) ELSE NoInstance]
  /\ missingNodes = missing
  /\ snapBase = root
  /\ panicked = ""
  /\ last = Did("New", 1)
  /\ taken = [i \in Insts |-> <<>>]
  /\ appended = 0
  /\ snft = NoSnft
  /\ staking = NoStaking
  /\ prefetcher = NoPrefetcher
  /\ header = NoHeader

\* opened with a snapshot layer, nothing missing
Init == InitWith(HealthyRoot, TRUE, {})

\* the writers, with the arguments this specification draws for them: every
\* writer on both addresses, zero and non-zero amounts where zero is a case
\* of its own
Writers(i) ==
  \/ \E a \in Addrs, x \in Amounts : OpAddBalance(i, a, x)
  \/ \E a \in Addrs : OpSubBalance(i, a, 1)
  \/ \E a \in Addrs : OpSetBalance(i, a, 0)
  \/ \E a \in Addrs : OpSetNonce(i, a, 1)
  \/ \E a \in Addrs : OpSetCode(i, a, 1)
  \/ \E a \in Addrs, k \in Slots : OpSetState(i, a, k, 1)
  \/ \E a \in Addrs : OpSuicide(i, a)
  \/ \E a \in Addrs : OpCreateAccount(i, a)
  \/ OpAddLog(i)
  \/ \E h \in Preimages : OpAddPreimage(i, h)
  \/ OpAddRefund(i, 1)
  \/ OpSubRefund(i, 1)
  \/ \E a \in Addrs : OpAddAddressToAccessList(i, a)
  \/ \E a \in Addrs, k \in Slots : OpAddSlotToAccessList(i, a, k)

Next ==
  \/ Writers(1)
  \/ OpSnapshot(1)
  \/ \E id \in 0..MaxRevisions : OpRevertToSnapshot(1, id)
  \/ \E d \in BOOLEAN : OpFinalise(1, d)

Spec == Init /\ [][Next]_vars

(***************************************************************************)
(* The root pipeline under faults: the state is opened with or without a   *)
(* snapshot layer, at a root that may hold bytes that are no account, over *)
(* a trie that may have unresolvable nodes.                                *)
(***************************************************************************)
GarbledRoot ==
  [a \in Addrs |-> IF a = 1 THEN Some(FundedAccount) ELSE Some(GarbledAccount)]

\* the ways the state is opened: nothing wrong; trie writes of address 1
\* failing under a snapshot layer that answers the reads; every trie access
\* failing; undecodable bytes at the addresses other than 1
Openings ==
  {<<HealthyRoot, TRUE, {}>>, <<HealthyRoot, TRUE, {1}>>,
   <<HealthyRoot, FALSE, Addrs>>, <<GarbledRoot, FALSE, {}>>}

InitRoot == \E o \in Openings : InitWith(o[1], o[2], o[3])

NextRoot ==
  \/ \E a \in Addrs : OpRead(1, a)
  \/ \E a \in Addrs : OpAddBalance(1, a, 1)
  \/ \E a \in Addrs : OpSuicide(1, a)
  \/ \E a \in Addrs, k \in Slots : OpSetState(1, a, k, 1)
  \/ OpSnapshot(1)
  \/ \E id \in 0..MaxRevisions : OpRevertToSnapshot(1, id)
  \/ \E d \in BOOLEAN : OpFinalise(1, d)
  \/ \E d \in BOOLEAN : OpIntermediateRoot(1, d)
  \/ \E d \in BOOLEAN : OpCommit(1, d)

SpecRoot == InitRoot /\ [][NextRoot]_vars

(***************************************************************************)
(* A state and its copy: instance 1 is copied once, at any moment, and     *)
(* both instances are then driven independently, each with one revision    *)
(* to take and to revert to.                                               *)
(***************************************************************************)
NextCopy ==
  \/ OpCopy(1)
  \/ OpAddRefund(1, 1)
  \/ \E i \in Insts :
       \/ \E a \in Addrs : OpAddBalance(i, a, 1)
       \/ OpSuicide(i, 1)
       \/ \E k \in Slots : OpSetState(i, 1, k, 1)
       \/ sdb[2].alive /\ sdb[i].nextRevisionId = 0 /\ OpSnapshot(i)
       \/ ~RevertPanics(sdb[i], 0) /\ OpRevertToSnapshot(i, 0)
       \/ \E d \in BOOLEAN : OpFinalise(i, d)
       \/ OpIntermediateRoot(i, FALSE)

SpecCopy == Init /\ [][NextCopy]_vars

(***************************************************************************)
(* Two instances opened at the same root that receive the same calls.  The *)
(* maps of the two are ranged in orders chosen independently.              *)
(***************************************************************************)
InitPair ==
  \E o \in Openings :
    /\ sdb = [i \in Insts |-> [New(o[1], o[2]) EXCEPT !.id = i]]
    /\ missingNodes = o[3]
    /\ snapBase = o[1]
    /\ panicked = ""
    /\ last = Did("New", 1)
    /\ taken = [i \in Insts |-> <<>>]
    /\ appended = 0
    /\ snft = NoSnft
    /\ staking = NoStaking
    /\ prefetcher = NoPrefetcher
    /\ header = NoHeader

\* the same call on both instances, leaving s1 and s2
Pair(did, s1, s2) ==
  /\ panicked = ""
  /\ InBounds(s1)
  /\ InBounds(s2)
  /\ appended + Grown(1, s1) <= MaxAppends
  /\ sdb' = [i \in Insts |-> IF i = 1 THEN s1 ELSE s2]
  /\ last' = did
  /\ appended' = appended + Grown(1, s1)
  /\ UNCHANGED <<missingNodes, snapBase, panicked, taken, snft, staking,
                 prefetcher, header>>

BothAddBalance(addr, amount) ==
  Pair(Did("write", 1), AddBalance(sdb[1], addr, amount),
       AddBalance(sdb[2], addr, amount))

BothSetState(addr, key, value) ==
  Pair(Did("write", 1), SetState(sdb[1], addr, key, value),
       SetState(sdb[2], addr, key, value))

BothSuicide(addr) ==
  Pair(Did("write", 1), Suicide(sdb[1], addr), Suicide(sdb[2], addr))

BothSnapshot ==
  Pair(Did("Snapshot", 1), Snapshot(sdb[1]), Snapshot(sdb[2]))

BothRevertToSnapshot(revid) ==
  /\ ~RevertPanics(sdb[1], revid)
  /\ ~RevertPanics(sdb[2], revid)
  /\ Pair(Did("RevertToSnapshot", 1), RevertToSnapshot(sdb[1], revid),
          RevertToSnapshot(sdb[2], revid))

BothFinalise(deleteEmptyObjects) ==
  Pair(Did("Finalise", 1), Finalise(sdb[1], deleteEmptyObjects),
       Finalise(sdb[2], deleteEmptyObjects))

BothIntermediateRoot(deleteEmptyObjects) ==
  /\ \A i \in Insts : ~NilPending(Finalise(sdb[i], deleteEmptyObjects))
  /\ \E o1 \in Orders(PendingAfterFinalise(sdb[1], deleteEmptyObjects)),
        o2 \in Orders(PendingAfterFinalise(sdb[2], deleteEmptyObjects)) :
       Pair([Did("IntermediateRoot", 1) EXCEPT !.orders = <<o1, o2>>],
            IntermediateRoot(sdb[1], deleteEmptyObjects, o1),
            IntermediateRoot(sdb[2], deleteEmptyObjects, o2))

BothCommit(deleteEmptyObjects) ==
  /\ \A i \in Insts : ~NilPending(Finalise(sdb[i], deleteEmptyObjects))
  /\ \A i \in Insts : ~NilDirty(Finalise(sdb[i], deleteEmptyObjects))
  /\ \E o1 \in Orders(PendingAfterFinalise(sdb[1], deleteEmptyObjects)),
        o2 \in Orders(PendingAfterFinalise(sdb[2], deleteEmptyObjects)) :
       Pair([Did(IF CommitFails(sdb[1]) THEN "CommitAborted" ELSE "Commit", 1)
               EXCEPT !.orders = <<o1, o2>>],
            Commit(sdb[1], deleteEmptyObjects, o1),
            Commit(sdb[2], deleteEmptyObjects, o2))

NextPair ==
  \/ \E a \in Addrs : BothAddBalance(a, 1)
  \/ \E a \in Addrs, k \in Slots : BothSetState(a, k, 1)
  \/ \E a \in Addrs : BothSuicide(a)
  \/ BothSnapshot
  \/ \E id \in 0..MaxRevisions : BothRevertToSnapshot(id)
  \/ \E d \in BOOLEAN : BothFinalise(d)
  \/ \E d \in BOOLEAN : BothIntermediateRoot(d)
  \/ \E d \in BOOLEAN : BothCommit(d)

SpecPair == InitPair /\ [][NextPair]_vars

(***************************************************************************)
(* Snapshots and the journal.                                              *)
(***************************************************************************)

\* C1: a RevertToSnapshot(id) that returned leaves every balance, nonce, code,
\* storage slot, the refund counter, the logs and the log counter, the
\* preimages and the access list as the reads returned them just before the
\* Snapshot that handed out id, whatever writers ran in between
SnapshotRoundTrip ==
  (last.op = "RevertToSnapshot" /\ panicked = "")
    => View(sdb[last.inst]) = Get(last.want)

\* a revert that undid two journal entries
SnapshotRoundTripWitness ==
  /\ last.op = "RevertToSnapshot"
  /\ panicked = ""
  /\ last.undone >= 2

\* the ids a caller may hand to RevertToSnapshot
RevIds == 0..(MaxRevisions + 1)

\* the ids Snapshot handed out that no revert and no Finalise has invalidated
Issued(i) == {taken[i][n].id : n \in DOMAIN taken[i]}

\* C2: RevertToSnapshot(id) returns exactly for the ids Snapshot handed out
\* that no later RevertToSnapshot(j), j <= id, has invalidated; for every
\* other id it panics and leaves the instance as it was; and after it has
\* returned, exactly the revisions older than id can still be reverted to
RevertExactlyValid ==
  \A i \in Insts : sdb[i].alive =>
    \A id \in RevIds :
      /\ RevertPanics(sdb[i], id) <=> id \notin Issued(i)
      /\ RevertPanics(sdb[i], id) => RevertToSnapshot(sdb[i], id) = sdb[i]
      /\ ~RevertPanics(sdb[i], id) =>
           \A j \in RevIds :
             RevertPanics(RevertToSnapshot(sdb[i], id), j)
               <=> ~(j \in Issued(i) /\ j < id)

\* a revert to the newer of two revisions has returned: the older one is
\* left, and entries were undone
RevertExactlyValidWitness ==
  /\ last.op = "RevertToSnapshot"
  /\ panicked = ""
  /\ last.undone >= 1
  /\ Issued(1) = {0}
  /\ sdb[1].nextRevisionId = 2

\* C3: after Finalise has run, directly or inside IntermediateRoot or Commit,
\* no revision id can be reverted to any more, the ids handed out before it
\* included, also when the journal was empty all along
FinaliseInvalidatesRevisions ==
  (last.op \in {"Finalise", "IntermediateRoot", "Commit"} /\ panicked = "")
    => \A id \in RevIds : RevertPanics(sdb[last.inst], id)

\* a Finalise after a Snapshot with not one journal entry appended
FinaliseInvalidatesRevisionsWitness ==
  /\ last.op = "Finalise"
  /\ panicked = ""
  /\ sdb[1].nextRevisionId > 0
  /\ appended = 0

\* the call that led from s to s2 appended to the journal
Appends(s, s2) == Len(s2.journal) > Len(s.journal)

\* C7 (as stated): every call of a public writer, for every argument and in
\* every reachable state, appends at least one journal entry (Suicide when
\* the account exists)
JournalComplete ==
  LET s == sdb[1] IN
  /\ \A a \in Addrs, x \in Amounts :
        /\ Appends(s, AddBalance(s, a, x))
        /\ Appends(s, SubBalance(s, a, x))
        /\ Appends(s, SetBalance(s, a, x))
  /\ \A a \in Addrs, n \in Nonces : Appends(s, SetNonce(s, a, n))
  /\ \A a \in Addrs, c \in Codes : Appends(s, SetCode(s, a, c))
  /\ \A a \in Addrs, k \in Slots, v \in Vals : Appends(s, SetState(s, a, k, v))
  /\ \A a \in Addrs : Exist(s, a) => Appends(s, Suicide(s, a))
  /\ Appends(s, AddLog(s))
  /\ \A h \in Preimages : Appends(s, AddPreimage(s, h))
  /\ \A g \in Amounts : Appends(s, AddRefund(s, g)) /\ Appends(s, SubRefund(s, g))
  /\ \A a \in Addrs : Appends(s, AddAddressToAccessList(s, a))
  /\ \A a \in Addrs, k \in Slots : Appends(s, AddSlotToAccessList(s, a, k))

\* C7 (amended): a call of a public writer appends at least one journal entry
\* unless it is one of the calls that have nothing to undo, which leave the
\* journal as it was: AddPreimage of a recorded hash, AddAddressToAccessList
\* and AddSlotToAccessList of what the list holds, AddBalance of zero to a
\* non-empty account, SubBalance of zero from an existing account, SetState
\* of the value the slot of an existing account already has
JournalCompleteUnlessIdle ==
  LET s == sdb[1]
      Grows(idle, s2) == IF idle THEN s2.journal = s.journal ELSE Appends(s, s2)
  IN
  /\ \A a \in Addrs, x \in Amounts :
        /\ Grows(x = 0 /\ Exist(s, a) /\ ~Empty(s, a), AddBalance(s, a, x))
        /\ Grows(x = 0 /\ Exist(s, a), SubBalance(s, a, x))
        /\ Grows(FALSE, SetBalance(s, a, x))
  /\ \A a \in Addrs, n \in Nonces : Grows(FALSE, SetNonce(s, a, n))
  /\ \A a \in Addrs, c \in Codes : Grows(FALSE, SetCode(s, a, c))
  /\ \A a \in Addrs, k \in Slots, v \in Vals :
        Grows(Exist(s, a) /\ GetState(s, a, k) = v, SetState(s, a, k, v))
  /\ \A a \in Addrs : Exist(s, a) => Grows(FALSE, Suicide(s, a))
  /\ Grows(FALSE, AddLog(s))
  /\ \A h \in Preimages : Grows(h \in s.preimages, AddPreimage(s, h))
  /\ \A g \in Amounts :
        Grows(FALSE, AddRefund(s, g)) /\ Grows(FALSE, SubRefund(s, g))
  /\ \A a \in Addrs :
        Grows(ContainsAddress(s.accessList, a), AddAddressToAccessList(s, a))
  /\ \A a \in Addrs, k \in Slots :
        Grows(Contains(s.accessList, a, k), AddSlotToAccessList(s, a, k))

\* writers have run and appended; the preimage and an access-list address
\* are recorded, so that adding them again is a call with nothing to undo
JournalCompleteUnlessIdleWitness ==
  /\ last.op = "write"
  /\ Len(sdb[1].journal) >= 2
  /\ sdb[1].preimages /= {}
  /\ sdb[1].accessList.addresses /= {}

\* the values of the refund counter and of a gas argument (uint64)
Gas == 0..(RefundMod - 1)

\* C8: SubRefund(x) with x above the counter panics, the counter is never
\* negative, and AddRefund(g) followed by SubRefund(g) returns and leaves the
\* counter at its previous value
RefundRoundTrip ==
  LET s == sdb[1] IN
  /\ GetRefund(s) >= 0
  /\ \A x \in Gas : x > GetRefund(s) => SubRefundPanics(s, x)
  /\ \A g \in Gas :
        /\ ~SubRefundPanics(AddRefund(s, g), g)
        /\ GetRefund(SubRefund(AddRefund(s, g), g)) = GetRefund(s)

(***************************************************************************)
(* Errors of the database.                                                 *)
(***************************************************************************)

\* a read of addr goes to the account trie: there is no snapshot layer, or
\* reading from it failed
FromTrie(s, addr) ==
  ~s.snapOn \/ (IsSome(snapBase[addr]) /\ ~DecodeOk(Get(snapBase[addr])))

\* trie.TryGet returns an error
TrieReadError(s, addr) == FromTrie(s, addr) /\ addr \in missingNodes

\* rlp.DecodeBytes returns an error on what TryGet returned
DecodeError(s, addr) ==
  /\ FromTrie(s, addr)
  /\ addr \notin missingNodes
  /\ IsSome(s.trie[addr])
  /\ ~DecodeOk(Get(s.trie[addr]))

\* C9: a read of an address that is not in the live set and hits a trie read
\* error or an account decode error returns the zero-valued defaults (Exist
\* false, balance 0, nonce 0) and leaves dbErr set, so that the next Commit
\* returns an error
ReadErrorsMemoised ==
  \A a \in Addrs :
    (/\ panicked = ""
     /\ sdb[1].stateObjects[a] = None
     /\ (TrieReadError(sdb[1], a) \/ DecodeError(sdb[1], a)))
    => /\ ~Exist(sdb[1], a)
       /\ GetBalance(sdb[1], a) = 0
       /\ GetNonce(sdb[1], a) = 0
       /\ Read(sdb[1], a).dbErr /= NoError
       /\ CommitFails(Read(sdb[1], a))

\* C10: once dbErr is set on an instance no step clears or replaces it, and a
\* Commit on that instance returns the error and leaves the instance (its
\* journal, pending and dirty sets, trie and snapshot caches) as it was
DbErrSticky ==
  [][\A i \in Insts :
       (sdb[i].alive /\ sdb[i].dbErr /= NoError) =>
         /\ sdb'[i].dbErr = sdb[i].dbErr
         /\ (last'.inst = i /\ last'.op \in {"Commit", "CommitAborted"})
              => (last'.op = "CommitAborted" /\ sdb'[i] = sdb[i])]_vars

\* a Commit returned the error of a failed read, after an IntermediateRoot
\* whose trie writes failed as well
DbErrStickyWitness ==
  /\ last.op = "CommitAborted"
  /\ missingNodes = Addrs
  /\ sdb[1].dbErr /= NoError
  /\ sdb[1].dbErr[1] = "getDeleteStateObject"
  /\ sdb[1].stateObjectsPending = {}
  /\ sdb[1].stateObjectsDirty /= {}

(***************************************************************************)
(* Copies.                                                                 *)
(***************************************************************************)

\* C4: in every state reached as Finalise returns, on any instance (a copy
\* included), the journal is empty and GetRefund() is 0
FinaliseClearsRefund ==
  (last.op = "Finalise" /\ panicked = "")
    => /\ Len(sdb[last.inst].journal) = 0
       /\ GetRefund(sdb[last.inst]) = 0

\* everything the read interface and the caches of an instance show
Reads(s) ==
  [view |-> View(s),
   pending |-> s.stateObjectsPending,
   dirty |-> s.stateObjectsDirty,
   snapDestructs |-> s.snapDestructs,
   snapAccounts |-> s.snapAccounts,
   snapStorage |-> s.snapStorage]

\* C6: once the copy exists, a call on one of the two instances (a write,
\* Snapshot, RevertToSnapshot, Finalise, IntermediateRoot) leaves every read
\* on the other one, its pending and dirty sets and its snapshot caches as
\* they were
CopyIndependence ==
  [][\A j \in Insts :
       (sdb[j].alive /\ last'.inst /= j) => Reads(sdb'[j]) = Reads(sdb[j])]_vars

\* the copy holds an object the original holds too, and a write on the copy
\* has made their balances differ
CopyIndependenceWitness ==
  /\ sdb[2].alive
  /\ last.inst = 2
  /\ last.op = "write"
  /\ \E a \in Addrs :
       /\ IsSome(sdb[1].stateObjects[a])
       /\ IsSome(sdb[2].stateObjects[a])
       /\ objAt(sdb[1], a).balance /= objAt(sdb[2], a).balance

(***************************************************************************)
(* The roots.                                                              *)
(***************************************************************************)

\* C5: two instances opened at the same root that received the same calls
\* return equal roots from every IntermediateRoot and Commit (and abort the
\* same Commits), whatever the orders their pending and dirty sets were
\* ranged in
CommitDeterminism ==
  /\ last.op \in {"IntermediateRoot", "Commit"} => Hash(sdb[1]) = Hash(sdb[2])
  /\ CommitFails(sdb[1]) <=> CommitFails(sdb[2])

\* an IntermediateRoot or Commit has written two pending accounts, in one
\* order on the first instance and in the other order on the second
CommitDeterminismWitness ==
  /\ last.op \in {"IntermediateRoot", "Commit"}
  /\ Len(last.orders[1]) = 2
  /\ last.orders[1] /= last.orders[2]
  /\ \E a \in Addrs : sdb[1].trie[a] /= snapBase[a]

(***************************************************************************)
(* Deleted and suicided objects.                                           *)
(***************************************************************************)

\* the object at addr in the live set is marked deleted
Deleted(s, addr) == IsSome(s.stateObjects[addr]) /\ objAt(s, addr).deleted

\* the deleted objects a revert can put back: the ones a resetObject entry
\* of the journal holds
Overwritten(s, addr) ==
  {s.journal[n].prev : n \in {m \in DOMAIN s.journal :
      /\ s.journal[m].kind = "resetObject"
      /\ s.journal[m].account = addr}}

\* what holds of every state: Finalise marks only live objects of
\* journal.dirties that are suicided, or empty when it deletes the empty
\* ones, and a deleted object does not show in Exist, GetBalance, GetNonce
DeletedByFinalise ==
  \A a \in Addrs :
    /\ \A d \in BOOLEAN :
         (Deleted(Finalise(sdb[1], d), a) /\ ~Deleted(sdb[1], a)) =>
           /\ sdb[1].dirties[a] > 0
           /\ IsSome(sdb[1].stateObjects[a])
           /\ objAt(sdb[1], a).suicided \/ (d /\ empty(objAt(sdb[1], a)))
    /\ Deleted(sdb[1], a) =>
         /\ objAt(sdb[1], a).suicided \/ empty(objAt(sdb[1], a))
         /\ ~Exist(sdb[1], a)
         /\ GetBalance(sdb[1], a) = 0
         /\ GetNonce(sdb[1], a) = 0

\* what holds of every step: a call other than Finalise marks nothing; a
\* deleted object in the live set after it was there before, or is the
\* overwritten object a revert put back
DeletedKept ==
  \A a \in Addrs :
    (Deleted(sdb'[1], a) /\ last'.op /= "Finalise") =>
      \/ sdb'[1].stateObjects[a] = sdb[1].stateObjects[a]
      \/ /\ last'.op = "RevertToSnapshot"
         /\ objAt(sdb'[1], a) \in Overwritten(sdb[1], a)

\* C11: a state object is marked deleted only by Finalise, only when it is a
\* live object of journal.dirties that is suicided or (with delete_empty)
\* empty, and while it is deleted Exist, GetBalance and GetNonce answer
\* false, 0 and 0
DeletedOnlyByFinalise == []DeletedByFinalise /\ [][DeletedKept]_vars

\* an empty object that Finalise deleted, and one that a revert put back
\* over its re-creation
DeletedOnlyByFinaliseWitness ==
  /\ last.op = "RevertToSnapshot"
  /\ panicked = ""
  /\ \E a \in Addrs : Deleted(sdb[1], a) /\ ~objAt(sdb[1], a).suicided

\* the instance after Snapshot, the writes of pre, Suicide(addr) and the
\* revert to that snapshot
SuicideUndone(s, addr, pre) ==
  LET s1 == Snapshot(s)
      s2 == IF pre THEN AddBalance(s1, addr, 1) ELSE s1
  IN RevertToSnapshot(Suicide(s2, addr), s.nextRevisionId)

\* C12: Suicide on an existing account returns true, sets suicided, zeroes
\* the balance and leaves Exist true until the next Finalise; a revert to a
\* snapshot taken before it restores balance and suicided flag; Suicide on
\* a non-existent account returns false and changes nothing, the journal
\* included
SuicideSafe ==
  \A a \in Addrs :
    LET s == sdb[1]
        r == Suicide(s, a)
    IN IF Exist(s, a)
       THEN /\ SuicideReturns(s, a)
            /\ HasSuicided(r, a)
            /\ GetBalance(r, a) = 0
            /\ Exist(r, a)
            /\ \A x \in Amounts : Exist(AddBalance(r, a, x), a)
            /\ \A d \in BOOLEAN : ~Exist(Finalise(r, d), a)
            /\ \A pre \in BOOLEAN :
                 /\ GetBalance(SuicideUndone(s, a, pre), a) = GetBalance(s, a)
                 /\ HasSuicided(SuicideUndone(s, a, pre), a) = HasSuicided(s, a)
       ELSE /\ ~SuicideReturns(s, a)
            /\ r = s

\* a funded account was suicided, and another address has no account
SuicideSafeWitness ==
  /\ last.op = "write"
  /\ Len(sdb[1].journal) > 0
  /\ LET e == sdb[1].journal[Len(sdb[1].journal)] IN
       /\ e.kind = "suicide"
       /\ e.prevbalance > 0
       /\ HasSuicided(sdb[1], e.account)
       /\ GetBalance(sdb[1], e.account) = 0
  /\ \E b \in Addrs : ~Exist(sdb[1], b)

(***************************************************************************)
(* SNFT addresses.  An address is written with its first hex digit and its *)
(* last three; the 36 digits between them are zero in every address used.  *)
(* So 0x8000000000000000000000000000000000000000 is SnftBase, and the       *)
(* hex-string detours of the code are digit arithmetic on these numbers.   *)
(***************************************************************************)
ZeroAddress == 0
SnftBase == 8 * 16 * 16 * 16
QUERYDEPTHLIMIT16 == 3
QUERYDEPTHLIMIT == 3
Siblings == 16

\* the accounts that own NFTs
Accounts == {SnftBase \div 2 + 1, SnftBase \div 2 + 2}

\* a hex string with its last cut digits removed: what is left, as a number
Cut(addr, cut) == [prefix |-> addr \div (16 ^ cut), cut |-> cut]

\* a padding that sets the last hex digit
PadOne(p) == p.prefix * (16 ^ p.cut) + 1

\* the string padded with "0" up to the length of an address
PadZero(p) == p.prefix * (16 ^ p.cut)

\* the string padded with "F" up to the length of an address
PadF(p) == p.prefix * (16 ^ p.cut) + (16 ^ p.cut) - 1

\* the i-th sibling address MergeNFT16 and IsCanMergeNFT16 build: the parent's
\* digits, the digit i, and mergeLevel zero digits
SiblingAddr(parentAddrS, mergeLevel, i) ==
  (parentAddrS.prefix * 16 + i) * (16 ^ mergeLevel)

IsOfficialNFT(nftAddress) == nftAddress \div (16 * 16 * 16) >= 8

\* a meta URL is the sequence of its parts between the "/" characters
EmptyURL == <<"">>
LastIndex(url) == IF Len(url) = 1 THEN 0 - 1 ELSE Len(url) - 1
UpTo(url, index) == SubSeq(url, 1, index)
AddrString(addr) == ToString(addr)

(***************************************************************************)
(* NFT records and the mint account.                                       *)
(***************************************************************************)
AccountNFT(owner, mergeLevel, mergeNumber, metaURL, snftRecipient) ==
  [owner |-> owner, mergeLevel |-> mergeLevel, mergeNumber |-> mergeNumber,
   metaURL |-> metaURL, snftRecipient |-> snftRecipient]

\* types.AccountNFT{}
ZeroNFT == AccountNFT(ZeroAddress, 0, 0, EmptyURL, ZeroAddress)

\* the record GetOrNewNFTStateObject(addr) hands out: the stored one, or the
\* zero record of a new object
NFT(s, addr) == IF addr \in DOMAIN s.nft THEN s.nft[addr] ELSE ZeroNFT

\* the records are kept for the addresses whose record is not the zero one
Store(nft, addr, rec) ==
  [a \in (DOMAIN nft \cup {addr}) \ (IF rec = ZeroNFT THEN {addr} ELSE {}) |->
     IF a = addr THEN rec ELSE nft[a]]

SetNFTInfo(s, addr, rec) == [s EXCEPT !.nft = Store(@, addr, rec)]

CleanNFT(s, addr) == [s EXCEPT !.nft = Store(@, addr, ZeroNFT)]

soChangeNFTOwner(s, addr, newOwner) ==
  [s EXCEPT !.nft = Store(@, addr, [NFT(s, addr) EXCEPT !.owner = newOwner])]

\* the mint account's MintDeep as GetOrNewStakerStateObject creates it
NewMintDeep == [userMint |-> 1, officialMint |-> SnftBase]

\* GetOrNewStakerStateObject(types.MintDeepStorageAddress)
GetOrNewStakerStateObject(s) ==
  IF s.mint = None THEN [s EXCEPT !.mint = Some(NewMintDeep)] ELSE s

MintDeep(s) == Get(GetOrNewStakerStateObject(s).mint)
GetOfficialMint(s) == MintDeep(s).officialMint
GetUserMint(s) == MintDeep(s).userMint

AddOfficialMint(s, n) ==
  [s EXCEPT !.mint = Some([MintDeep(s) EXCEPT !.officialMint = @ + n])]

AddUserMint(s, n) ==
  [s EXCEPT !.mint = Some([MintDeep(s) EXCEPT !.userMint = @ + n])]

GetNFTOwner16(s, nftAddr) == NFT(s, nftAddr).owner
GetSNFTNoMerge(s, addr) == addr \in Accounts /\ s.noMerge[addr]
ChangeSNFTNoMerge(s, addr, flag) == [s EXCEPT !.noMerge[addr] = flag]

IsBeyondOfficialMint(s, parentAddr) == GetOfficialMint(s) < PadF(parentAddr)

(***************************************************************************)
(* SNFT values.  An amount is kept as the number of SNFTL0, SNFTL1, SNFTL2 *)
(* and SNFTL3 units it is made of.                                         *)
(***************************************************************************)
Levels == 0..QUERYDEPTHLIMIT16
ZeroValue == [l \in Levels |-> 0]
Plus(x, y) == [l \in Levels |-> x[l] + y[l]]
Minus(x, y) == [l \in Levels |-> x[l] - y[l]]

calculateExchangeAmount(level, mergenumber) ==
  [l \in Levels |->
     IF l = (IF level < QUERYDEPTHLIMIT16 THEN level ELSE QUERYDEPTHLIMIT16)
     THEN mergenumber ELSE 0]

\* the addresses written here are all in the first exchange period, where the
\* ratio is DeflationRate ^ 0
GetExchangAmount(nftaddress, initamount) == initamount

(***************************************************************************)
(* Merging.                                                                *)
(***************************************************************************)
RECURSIVE Ascending(_)
Ascending(S) ==
  IF S = {} THEN <<>>
  ELSE LET m == CHOOSE x \in S : \A y \in S : x <= y
       IN <<m>> \o Ascending(S \ {m})

RECURSIVE Sum(_)
Sum(seq) == IF seq = <<>> THEN 0 ELSE Head(seq) + Sum(Tail(seq))

\* the loop of IsCanMergeNFT16 from sibling i on: "true", "false", or "panic"
\* when a meta URL without "/" is cut at index -1
RECURSIVE canMergeFrom(_, _, _)
canMergeFrom(s, nftAddr, i) ==
  IF i = Siblings THEN "true"
  ELSE LET nftStateObject == NFT(s, nftAddr)
           mergeLevel == nftStateObject.mergeLevel
           siblingAddr == SiblingAddr(Cut(nftAddr, mergeLevel + 1), mergeLevel, i)
           siblingStateObject == NFT(s, siblingAddr)
           nftIndex == LastIndex(nftStateObject.metaURL)
           siblingIndex == LastIndex(siblingStateObject.metaURL)
       IN IF siblingAddr = nftAddr THEN canMergeFrom(s, nftAddr, i + 1)
          ELSE IF siblingStateObject.owner = ZeroAddress
          THEN IF siblingStateObject.mergeLevel /= mergeLevel THEN "false"
               ELSE canMergeFrom(s, nftAddr, i + 1)
          ELSE IF \/ siblingStateObject.owner /= nftStateObject.owner
                  \/ siblingStateObject.mergeLevel /= mergeLevel
          THEN "false"
          ELSE IF nftIndex < 0 \/ siblingIndex < 0 THEN "panic"
          ELSE IF UpTo(nftStateObject.metaURL, nftIndex)
                    /= UpTo(siblingStateObject.metaURL, siblingIndex)
          THEN "false"
          ELSE canMergeFrom(s, nftAddr, i + 1)

\* IsCanMergeNFT16 gets as far as reading the official mint
ReadsOfficialMint(s, nftAddr) ==
  /\ ~(GetNFTOwner16(s, nftAddr) /= ZeroAddress
       /\ GetSNFTNoMerge(s, GetNFTOwner16(s, nftAddr)))
  /\ NFT(s, nftAddr).mergeLevel < QUERYDEPTHLIMIT16

canMerge(s, nftAddr) ==
  IF ~ReadsOfficialMint(s, nftAddr) THEN "false"
  ELSE IF IsBeyondOfficialMint(s, Cut(nftAddr, NFT(s, nftAddr).mergeLevel + 1))
  THEN "false"
  ELSE canMergeFrom(s, nftAddr, 0)

IsCanMergeNFT16(s, nftAddr) == canMerge(s, nftAddr) = "true"

\* a ConstructLog that leaves the merged SNFTs out of the log
LogWithoutSubNFTs(mergedNFTAddress, owner, mergedNFTLevel, mergedNFTNumber, mergedNFTs) ==
  [event |-> "MergeSNFT",
   snft |-> Cut(mergedNFTAddress, mergedNFTLevel).prefix,
   owner |-> owner,
   pieces |-> mergedNFTNumber,
   subNFTs |-> <<>>]

ConstructLog(mergedNFTAddress, owner, mergedNFTLevel, mergedNFTNumber, mergedNFTs) ==
  [event |-> "MergeSNFT",
   snft |-> Cut(mergedNFTAddress, mergedNFTLevel).prefix,
   owner |-> owner,
   pieces |-> mergedNFTNumber,
   subNFTs |-> mergedNFTs]

snftAddLog(s, log) == [s EXCEPT !.logs = Append(@, log)]

\* an AddSNFTL3Addrs that does not enter the address
AddSNFTL3AddrsNone(s, snftAddr) == s

AddSNFTL3Addrs(s, snftAddr) == [s EXCEPT !.l3 = @ \cup {snftAddr}]
RemoveSNFTL3Addrs(s, snftAddr) == [s EXCEPT !.l3 = @ \ {snftAddr}]

\* the dividend address list
AddDividendAddrsOne(s, snftAddr) == [s EXCEPT !.dividend = @ \cup {snftAddr}]
RemoveDividendAddrsOne(s, snftAddr) == [s EXCEPT !.dividend = @ \ {snftAddr}]

\* F applied to v, with v computed once as the value of a Go variable is
Once(v, F(_)) == CHOOSE y \in {F(x) : x \in {v}} : TRUE

\* a merge that gives the merged record 16 ^ level pieces, whatever the
\* siblings held
mergeSiblingsFull(s0, nftAddr) ==
  LET nftStateObject == NFT(s0, nftAddr)
      mergeLevel == nftStateObject.mergeLevel
      parentAddrS == Cut(nftAddr, mergeLevel + 1)
      newMergedAddr == PadZero(parentAddrS)
      index == LastIndex(nftStateObject.metaURL)
  IN Once(Ascending({a \in {SiblingAddr(parentAddrS, mergeLevel, i) :
                              i \in 0..(Siblings - 1)} :
                       NFT(s0, a).owner /= ZeroAddress}),
       LAMBDA owned :
         LET mergedNFTs == [n \in 1..Len(owned) |->
                              [address |-> owned[n],
                               number |-> NFT(s0, owned[n]).mergeNumber]]
             mergeNumber == 16 ^ (mergeLevel + 1)
             s1 == [s0 EXCEPT !.nft =
                      [a \in DOMAIN @ \ {owned[n] : n \in 1..Len(owned)} |-> @[a]]]
             metaUrl == Append(UpTo(nftStateObject.metaURL, index),
                               AddrString(newMergedAddr))
             s2 == SetNFTInfo(s1, newMergedAddr,
                     AccountNFT(nftStateObject.owner, mergeLevel + 1,
                                mergeNumber, metaUrl,
                                nftStateObject.snftRecipient))
             increaseValue ==
               Minus(GetExchangAmount(newMergedAddr,
                       calculateExchangeAmount(mergeLevel + 1, mergeNumber)),
                     GetExchangAmount(newMergedAddr,
                       calculateExchangeAmount(mergeLevel, mergeNumber)))
             s3 == snftAddLog(s2, ConstructLog(newMergedAddr,
                                nftStateObject.owner, mergeLevel + 1,
                                mergeNumber, mergedNFTs))
             s4 == IF mergeLevel + 1 >= 3
                   THEN AddSNFTL3Addrs(s3, newMergedAddr) ELSE s3
         IN IF index < 0
            THEN [s |-> s1, value |-> ZeroValue, panic |-> TRUE,
                  newMergedAddr |-> newMergedAddr]
            ELSE [s |-> s4, value |-> increaseValue, panic |-> FALSE,
                  newMergedAddr |-> newMergedAddr])

\* MergeNFT16 after IsCanMergeNFT16 and before it calls itself: the siblings
\* cleaned, the merged record set at the address merged and the log added
mergeSiblings(s0, nftAddr) ==
  LET nftStateObject == NFT(s0, nftAddr)
      mergeLevel == nftStateObject.mergeLevel
      parentAddrS == Cut(nftAddr, mergeLevel + 1)
      newMergedAddr == PadZero(parentAddrS)
      index == LastIndex(nftStateObject.metaURL)
  IN Once(Ascending({a \in {SiblingAddr(parentAddrS, mergeLevel, i) :
                              i \in 0..(Siblings - 1)} :
                       NFT(s0, a).owner /= ZeroAddress}),
       LAMBDA owned :
         LET mergedNFTs == [n \in 1..Len(owned) |->
                              [address |-> owned[n],
                               number |-> NFT(s0, owned[n]).mergeNumber]]
             mergeNumber == Sum([n \in 1..Len(owned) |->
                                   NFT(s0, owned[n]).mergeNumber])
             s1 == [s0 EXCEPT !.nft =
                      [a \in DOMAIN @ \ {owned[n] : n \in 1..Len(owned)} |-> @[a]]]
             metaUrl == Append(UpTo(nftStateObject.metaURL, index),
                               AddrString(newMergedAddr))
             s2 == SetNFTInfo(s1, newMergedAddr,
                     AccountNFT(nftStateObject.owner, mergeLevel + 1,
                                mergeNumber, metaUrl,
                                nftStateObject.snftRecipient))
             increaseValue ==
               Minus(GetExchangAmount(newMergedAddr,
                       calculateExchangeAmount(mergeLevel + 1, mergeNumber)),
                     GetExchangAmount(newMergedAddr,
                       calculateExchangeAmount(mergeLevel, mergeNumber)))
             s3 == snftAddLog(s2, ConstructLog(newMergedAddr,
                                nftStateObject.owner, mergeLevel + 1,
                                mergeNumber, mergedNFTs))
             s4 == IF mergeLevel + 1 >= 3
                   THEN AddSNFTL3Addrs(s3, newMergedAddr) ELSE s3
         IN IF index < 0
            THEN [s |-> s1, value |-> ZeroValue, panic |-> TRUE,
                  newMergedAddr |-> newMergedAddr]
            ELSE [s |-> s4, value |-> increaseValue, panic |-> FALSE,
                  newMergedAddr |-> newMergedAddr])

\* MergeNFT16: the StateDB it leaves, the increase of value it returns, and
\* whether it panics on the way
RECURSIVE MergeNFT16(_, _)
MergeNFT16(s, nftAddr) ==
  Once(canMerge(s, nftAddr), LAMBDA can :
    Once(IF ReadsOfficialMint(s, nftAddr)
         THEN GetOrNewStakerStateObject(s) ELSE s, LAMBDA s0 :
      IF can /= "true"
      THEN [s |-> s0, value |-> ZeroValue, panic |-> can = "panic"]
      ELSE Once(mergeSiblings(s0, nftAddr), LAMBDA merged :
             IF merged.panic
             THEN [s |-> merged.s, value |-> ZeroValue, panic |-> TRUE]
             ELSE Once(MergeNFT16(merged.s, merged.newMergedAddr), LAMBDA rest :
                    [s |-> rest.s, value |-> Plus(merged.value, rest.value),
                     panic |-> rest.panic]))))

\* the first sibling with an owner, if it is of the level asked for; else the
\* same one level up
RECURSIVE GetExistAddress(_, _, _)
GetExistAddress(s, nftAddr, mergeLevel) ==
  IF mergeLevel >= QUERYDEPTHLIMIT16 THEN ZeroAddress
  ELSE LET parentAddrS == Cut(nftAddr, mergeLevel + 1)
           owned == {a \in {SiblingAddr(parentAddrS, mergeLevel, i) :
                              i \in 0..(Siblings - 1)} \ {nftAddr} :
                       NFT(s, a).owner /= ZeroAddress}
           first == CHOOSE a \in owned : \A b \in owned : a <= b
       IN IF owned /= {}
          THEN IF NFT(s, first).mergeLevel = mergeLevel THEN first
               ELSE ZeroAddress
          ELSE GetExistAddress(s, PadZero(parentAddrS), mergeLevel + 1)

\* a lookup that does not go up to the parent
StoreAddressHere(s, address, depth) ==
  IF NFT(s, address).owner /= ZeroAddress /\ NFT(s, address).mergeLevel = depth
  THEN [nftStoreAddress |-> address, owner |-> NFT(s, address).owner,
        ok |-> TRUE]
  ELSE [nftStoreAddress |-> ZeroAddress, owner |-> ZeroAddress, ok |-> FALSE]

\* the 16-ary lookup: the parent has depth + 1 trailing hex digits zeroed
RECURSIVE GetNFTStoreAddress16(_, _, _)
GetNFTStoreAddress16(s, address, depth) ==
  IF depth > QUERYDEPTHLIMIT16
  THEN [nftStoreAddress |-> ZeroAddress, owner |-> ZeroAddress, ok |-> FALSE]
  ELSE IF NFT(s, address).owner /= ZeroAddress
          /\ NFT(s, address).mergeLevel = depth
  THEN [nftStoreAddress |-> address, owner |-> NFT(s, address).owner,
        ok |-> TRUE]
  ELSE GetNFTStoreAddress16(s, PadZero(Cut(address, depth + 1)), depth + 1)

\* the digits of this model that depth + 1 trailing zero bytes cover
ByteCut(depth) == IF 2 * (depth + 1) < 3 THEN 2 * (depth + 1) ELSE 3

\* the 256-ary lookup: the parent has depth + 1 trailing bytes zeroed
RECURSIVE GetNFTStoreAddress(_, _, _)
GetNFTStoreAddress(s, address, depth) ==
  IF depth > QUERYDEPTHLIMIT
  THEN [nftStoreAddress |-> ZeroAddress, owner |-> ZeroAddress, ok |-> FALSE]
  ELSE IF NFT(s, address).owner /= ZeroAddress
          /\ NFT(s, address).mergeLevel = depth
  THEN [nftStoreAddress |-> address, owner |-> NFT(s, address).owner,
        ok |-> TRUE]
  ELSE GetNFTStoreAddress(s, PadZero(Cut(address, ByteCut(depth))), depth + 1)

(***************************************************************************)
(* The operations on SNFTs.                                                *)
(***************************************************************************)
\* ChangeNFTOwner of an SNFT; the vote weights it moves are not kept
ChangeNFTOwner(s, nftAddr, newOwner) ==
  Once(soChangeNFTOwner(s, nftAddr, newOwner), LAMBDA s1 :
    IF IsOfficialNFT(nftAddr) THEN MergeNFT16(s1, nftAddr)
    ELSE [s |-> s1, value |-> ZeroValue, panic |-> FALSE])

\* the write a call makes to an account's balance or vote weight: the amount
\* added, negative when it is subtracted
AccountWrite(account, field, amount) ==
  [account |-> account, field |-> field, amount |-> amount]

\* an ExchangeNFTToCurrency that leaves the seller's vote weight as it is
ExchangeKeepsVoteWeight(s, address, nftaddress) ==
  LET nftStateObject == NFT(s, nftaddress)
      mergeLevel == nftStateObject.mergeLevel
      initAmount == calculateExchangeAmount(mergeLevel, nftStateObject.mergeNumber)
      amount == GetExchangAmount(nftaddress, initAmount)
      paid == <<AccountWrite(address, "balance", amount)>>
      s1 == IF mergeLevel >= 3
            THEN RemoveDividendAddrsOne(RemoveSNFTL3Addrs(s, nftaddress),
                                        nftaddress)
            ELSE s
  IN Once(CleanNFT(s1, nftaddress), LAMBDA s2 :
       Once(GetExistAddress(s2, nftaddress, mergeLevel), LAMBDA existNftAddress :
         IF existNftAddress /= ZeroAddress
         THEN Once(MergeNFT16(s2, existNftAddress), LAMBDA merged :
                [s |-> merged.s, value |-> merged.value, panic |-> merged.panic,
                 writes |-> IF merged.panic THEN paid
                            ELSE Append(paid,
                                   AccountWrite(NFT(s2, existNftAddress).owner,
                                                "voteWeight", merged.value))])
         ELSE [s |-> s2, value |-> ZeroValue, panic |-> FALSE,
               writes |-> paid]))

\* ExchangeNFTToCurrency: the StateDB it leaves, the writes it makes to the
\* accounts' balances and vote weights, in order, and whether it panics
ExchangeNFTToCurrency(s, address, nftaddress) ==
  LET nftStateObject == NFT(s, nftaddress)
      mergeLevel == nftStateObject.mergeLevel
      initAmount == calculateExchangeAmount(mergeLevel, nftStateObject.mergeNumber)
      amount == GetExchangAmount(nftaddress, initAmount)
      paid == <<AccountWrite(address, "balance", amount),
                AccountWrite(address, "voteWeight", Minus(ZeroValue, amount))>>
      s1 == IF mergeLevel >= 3
            THEN RemoveDividendAddrsOne(RemoveSNFTL3Addrs(s, nftaddress),
                                        nftaddress)
            ELSE s
  IN Once(CleanNFT(s1, nftaddress), LAMBDA s2 :
       Once(GetExistAddress(s2, nftaddress, mergeLevel), LAMBDA existNftAddress :
         IF existNftAddress /= ZeroAddress
         THEN Once(MergeNFT16(s2, existNftAddress), LAMBDA merged :
                [s |-> merged.s, value |-> merged.value, panic |-> merged.panic,
                 writes |-> IF merged.panic THEN paid
                            ELSE Append(paid,
                                   AccountWrite(NFT(s2, existNftAddress).owner,
                                                "voteWeight", merged.value))])
         ELSE [s |-> s2, value |-> ZeroValue, panic |-> FALSE,
               writes |-> paid]))

(***************************************************************************)
(* Minting.                                                                *)
(***************************************************************************)
DefaultDir == <<"default">>
DefaultNumber == 16 * 16 * 16
RemainderLow == 110

InjectOfficialNFT(s, dir, startIndex, number) ==
  [s EXCEPT !.injected =
     Append(@, [dir |-> dir, startIndex |-> startIndex, number |-> number])]

\* the injected batch that covers nftAddr, if there is one
GetInjectedInfo(injected, nftAddr) ==
  LET covers == {n \in DOMAIN injected :
                   /\ injected[n].startIndex <= nftAddr
                   /\ nftAddr < injected[n].startIndex + injected[n].number}
  IN IF covers = {} THEN None
     ELSE Some(injected[CHOOSE n \in covers : \A m \in covers : n <= m])

\* the batches with an address after addr
RemoveInjectSnfts(injected, addr) ==
  SelectSeq(injected, LAMBDA b : b.startIndex + b.number - 1 > addr)

\* the address after the last injected one
MaxIndex(injected) ==
  IF injected = <<>> THEN SnftBase
  ELSE LET ends == {injected[n].startIndex + injected[n].number :
                      n \in DOMAIN injected}
       IN CHOOSE e \in ends : \A f \in ends : f <= e

\* the injected addresses from addr on
RemainderNum(injected, addr) == MaxIndex(injected) - addr

\* ElectNominatedOfficialNFT2; mod is what the hash chain leaves modulo
\* the user mint
ElectNominatedOfficialNFT2(s, mod) ==
  LET s0 == GetOrNewStakerStateObject(s)
      dir == IF GetUserMint(s0) > 1 /\ NFT(s0, mod).owner /= ZeroAddress
             THEN NFT(s0, mod).metaURL ELSE DefaultDir
  IN InjectOfficialNFT(s0, dir, MaxIndex(s0.injected), DefaultNumber)

\* the loop of CreateNFTByOfficial16 over the exchangers: the StateDB, and
\* whether the function returned or panicked inside the loop
RECURSIVE awardExchangers(_, _)
awardExchangers(s, exchangers) ==
  IF exchangers = <<>> THEN [s |-> s, returned |-> FALSE, panic |-> FALSE]
  ELSE LET awardee == Head(exchangers)
           nftAddr == GetOfficialMint(s)
           injectedInfo == GetInjectedInfo(s.injected, nftAddr)
           metaUrl == Append(Get(injectedInfo).dir, AddrString(nftAddr))
           owner == IF s.agentRecipient[awardee] /= ZeroAddress
                    THEN s.agentRecipient[awardee] ELSE awardee
       IN IF injectedInfo = None
          THEN [s |-> s, returned |-> TRUE, panic |-> FALSE]
          ELSE Once(SetNFTInfo(s, nftAddr,
                               AccountNFT(owner, 0, 1, metaUrl, awardee)),
                 LAMBDA s1 :
                   Once(MergeNFT16(s1, nftAddr), LAMBDA merged :
                     IF merged.panic
                     THEN [s |-> merged.s, returned |-> FALSE, panic |-> TRUE]
                     ELSE Once(AddOfficialMint(merged.s, 1), LAMBDA s2 :
                            awardExchangers(s2, Tail(exchangers)))))

\* a CreateNFTByOfficial16 that leaves the official mint where it is
CreateNFTKeepsMint(s, exchangers, mod) ==
  LET s0 == GetOrNewStakerStateObject(s)
      nftAddr == GetOfficialMint(s0)
      injectedInfo == GetInjectedInfo(s0.injected, nftAddr)
  IN IF exchangers = <<>> \/ injectedInfo = None
     THEN [s |-> s0, panic |-> FALSE]
     ELSE [s |-> SetNFTInfo(s0, nftAddr,
                   AccountNFT(Head(exchangers), 0, 1,
                              Append(Get(injectedInfo).dir, AddrString(nftAddr)),
                              Head(exchangers))),
           panic |-> FALSE]

\* CreateNFTByOfficial16; the block rewards and vote weights are not kept
CreateNFTByOfficial16(s, exchangers, mod) ==
  Once(awardExchangers(GetOrNewStakerStateObject(s), exchangers), LAMBDA loop :
    LET s1 == [loop.s EXCEPT !.injected =
                 RemoveInjectSnfts(@, GetOfficialMint(loop.s) - 1)]
    IN IF loop.panic \/ loop.returned THEN [s |-> loop.s, panic |-> loop.panic]
       ELSE IF RemainderNum(loop.s.injected, GetOfficialMint(loop.s))
                 <= RemainderLow
       THEN [s |-> ElectNominatedOfficialNFT2(s1, mod), panic |-> FALSE]
       ELSE [s |-> s1, panic |-> FALSE])

MintNFTLog(nftAddress) == [event |-> "MintNFT", nftaddress |-> nftAddress]

\* CreateNFTByUser: the StateDB, and the address it returns
CreateNFTByUser(s, exchanger, owner, metaurl) ==
  LET s0 == GetOrNewStakerStateObject(s)
      nftAddr == GetUserMint(s0)
      s1 == SetNFTInfo(s0, nftAddr, AccountNFT(owner, 0, 1, metaurl, owner))
  IN [s |-> snftAddLog(AddUserMint(s1, 1), MintNFTLog(nftAddr)),
      nftAddr |-> nftAddr, ok |-> TRUE]

(***************************************************************************)
(* The SNFT state machine.  The chain starts with the SNFTs injected at    *)
(* genesis; every step is one call.  The first FreeFrom SNFTs go to one    *)
(* account and merge as they are minted; the calls that transfer,          *)
(* exchange and merge work on the SNFTs minted after them.                 *)
(***************************************************************************)
MaxOfficial == 256
FreeFrom == 254
MaxUserMint == 1

Owner1 == CHOOSE a \in Accounts : \A b \in Accounts : a <= b

\* a StateDB without NFT records, before the first use of the mint account
NewSnft ==
  [nft |-> <<>>, noMerge |-> [a \in Accounts |-> FALSE],
   agentRecipient |-> [a \in Accounts |-> ZeroAddress],
   mint |-> None, injected |-> <<>>, logs |-> <<>>, l3 |-> {},
   dividend |-> {}]

\* what genesis injects: one directory for every SNFT, or a second
\* directory from the last SNFT of the model on, or nothing
Genesis ==
  {InjectOfficialNFT(NewSnft, <<"U">>, SnftBase, MaxOfficial),
   InjectOfficialNFT(InjectOfficialNFT(NewSnft, <<"U">>, SnftBase,
                                       MaxOfficial - 1),
                     <<"V">>, SnftBase + MaxOfficial - 1, DefaultNumber),
   NewSnft}

Minted(s) == GetOfficialMint(s) - SnftBase
Late(s) == Minted(s) >= FreeFrom

\* the SNFT addresses the transfers, exchanges and direct merges work on: the
\* SNFTs minted from FreeFrom on and the addresses of the merged SNFTs above
\* them
Window ==
  LET leaves == {SnftBase + n : n \in FreeFrom..(MaxOfficial - 1)}
  IN leaves \cup {PadZero(Cut(a, l)) : a \in leaves, l \in 1..2}

InitSnft ==
  /\ snft \in Genesis
  /\ staking = NoStaking
  /\ prefetcher = NoPrefetcher
  /\ header = NoHeader
  /\ sdb = [i \in Insts |-> NoInstance]
  /\ missingNodes = {}
  /\ snapBase = HealthyRoot
  /\ panicked = ""
  /\ last = Did("New", 1)
  /\ taken = [i \in Insts |-> <<>>]
  /\ appended = 0

\* one call on the SNFT part of the StateDB, leaving r.s
SnftCall(op, r) ==
  /\ panicked = ""
  /\ snft' = r.s
  /\ panicked' = IF r.panic THEN "slice bounds out of range" ELSE ""
  /\ last' = Did(op, 1)
  /\ UNCHANGED <<sdb, missingNodes, snapBase, taken, appended, staking,
                 prefetcher, header>>

OpCreateNFTByOfficial16 ==
  \E exchangers \in (IF Late(snft) THEN {<<a>> : a \in Accounts}
                     ELSE {<<Owner1>>, <<Owner1, Owner1>>}),
     mod \in 1..MaxUserMint :
    /\ Minted(snft) + Len(exchangers) <= MaxOfficial
    /\ mod = 1 \/ mod < GetUserMint(snft)
    /\ SnftCall("CreateNFTByOfficial16",
                CreateNFTByOfficial16(snft, exchangers, mod))

OpCreateNFTByUser ==
  \E metaurl \in {<<"meta">>, <<"meta", "1">>} :
    /\ Minted(snft) = 0
    /\ GetUserMint(snft) <= MaxUserMint
    /\ SnftCall("CreateNFTByUser",
                [s |-> CreateNFTByUser(snft, Owner1, Owner1, metaurl).s,
                 panic |-> FALSE])

OpChangeNFTOwner ==
  \E nftAddr \in Window, newOwner \in Accounts :
    /\ Late(snft)
    /\ NFT(snft, nftAddr).owner /= ZeroAddress
    /\ SnftCall("ChangeNFTOwner", ChangeNFTOwner(snft, nftAddr, newOwner))

OpExchangeNFTToCurrency ==
  \E nftaddress \in Window :
    /\ Late(snft)
    /\ NFT(snft, nftaddress).owner /= ZeroAddress
    /\ SnftCall("ExchangeNFTToCurrency",
                ExchangeNFTToCurrency(snft, NFT(snft, nftaddress).owner,
                                      nftaddress))

OpChangeSNFTNoMerge ==
  \E addr \in Accounts, flag \in BOOLEAN :
    /\ Late(snft)
    /\ SnftCall("ChangeSNFTNoMerge",
                [s |-> ChangeSNFTNoMerge(snft, addr, flag), panic |-> FALSE])

OpMergeNFT16 ==
  \E nftAddr \in Window :
    /\ Late(snft)
    /\ SnftCall("MergeNFT16", MergeNFT16(snft, nftAddr))

NextSnft ==
  \/ OpCreateNFTByOfficial16
  \/ OpCreateNFTByUser
  \/ OpChangeNFTOwner
  \/ OpExchangeNFTToCurrency
  \/ OpChangeSNFTNoMerge
  \/ OpMergeNFT16

SpecSnft == InitSnft /\ [][NextSnft]_vars

(***************************************************************************)
(* Merging twice.                                                          *)
(***************************************************************************)

\* C13: a second MergeNFT16(a) right after a MergeNFT16(a) changes no NFT
\* record, appends no log, does not fail and returns an increase of 0
MergeIdempotent ==
  \A a \in Window :
    LET first == MergeNFT16(snft, a)
        second == MergeNFT16(first.s, a)
    IN (panicked = "" /\ ~first.panic) =>
         /\ ~second.panic
         /\ second.s.nft = first.s.nft
         /\ second.s.logs = first.s.logs
         /\ second.value = ZeroValue


\* the 16 addresses under the parent of nftAddr, nftAddr included
SiblingsOf(s, nftAddr) ==
  { SiblingAddr(Cut(nftAddr, NFT(s, nftAddr).mergeLevel + 1),
                NFT(s, nftAddr).mergeLevel, i) : i \in 0..(Siblings - 1) }

\* the meta URL before its last "/"
MetaUrlPrefix(s, addr) ==
  UpTo(NFT(s, addr).metaURL, LastIndex(NFT(s, addr).metaURL))

\* C14: IsCanMergeNFT16(a) is true exactly when all 16 addresses under a's
\* parent hold an owned record with a's owner, merge level (below 3) and
\* meta URL prefix, the owner has not set SNFTNoMerge and the last address
\* under the parent is not above the official mint
CanMergeIffAllSiblingsOwned ==
  panicked = "" =>
    \A a \in Window :
      LET nftStateObject == NFT(snft, a)
          allOwned ==
            /\ nftStateObject.owner /= ZeroAddress
            /\ ~GetSNFTNoMerge(snft, nftStateObject.owner)
            /\ nftStateObject.mergeLevel < QUERYDEPTHLIMIT16
            /\ PadF(Cut(a, nftStateObject.mergeLevel + 1)) <= GetOfficialMint(snft)
            /\ \A sibling \in SiblingsOf(snft, a) :
                 /\ NFT(snft, sibling).owner = nftStateObject.owner
                 /\ NFT(snft, sibling).mergeLevel = nftStateObject.mergeLevel
                 /\ MetaUrlPrefix(snft, sibling) = MetaUrlPrefix(snft, a)
      IN canMerge(snft, a) /= "panic" => (IsCanMergeNFT16(snft, a) <=> allOwned)


\* the parents of the level-0 SNFTs of the window
LeafParents == {PadZero(Cut(a, 1)) : a \in {b \in Window : b >= SnftBase + FreeFrom}}

\* the 16 level-0 addresses under parentAddr
Leaves(parentAddr) == {parentAddr + i : i \in 0..(Siblings - 1)}

\* 16 level-0 SNFTs under parentAddr with one owner and one meta URL prefix,
\* the owner without SNFTNoMerge and the parent within the official mint
SixteenLeaves(s, parentAddr) ==
  /\ NFT(s, parentAddr).owner /= ZeroAddress
  /\ ~GetSNFTNoMerge(s, NFT(s, parentAddr).owner)
  /\ PadF(Cut(parentAddr, 1)) <= GetOfficialMint(s)
  /\ \A a \in Leaves(parentAddr) :
       /\ NFT(s, a).owner = NFT(s, parentAddr).owner
       /\ NFT(s, a).mergeLevel = 0
       /\ LastIndex(NFT(s, a).metaURL) >= 0
       /\ MetaUrlPrefix(s, a) = MetaUrlPrefix(s, parentAddr)

\* s after the merge of the 16 leaves under parentAddr, invoked on nftAddr,
\* into one level-1 record
LeavesMerged(s, parentAddr, nftAddr) ==
  LET merged == AccountNFT(NFT(s, nftAddr).owner, 1, Siblings,
                           Append(MetaUrlPrefix(s, nftAddr),
                                  AddrString(parentAddr)),
                           NFT(s, nftAddr).snftRecipient)
      cleared == [s EXCEPT !.nft = [a \in DOMAIN @ \ Leaves(parentAddr) |-> @[a]]]
  IN SetNFTInfo(cleared, parentAddr, merged)

\* MergeNFT16(s, nftAddr) leaves one level-1 record for the 16 leaves under
\* parentAddr and one more log, a MergeSNFT log of 16 SNFTs
MergesLeaves(s, parentAddr, nftAddr) ==
  LET r == MergeNFT16(s, nftAddr)
      merged == LeavesMerged(s, parentAddr, nftAddr)
  IN /\ ~r.panic
     /\ r.s.nft = merged.nft
     /\ \A a \in Leaves(parentAddr) \ {parentAddr} : NFT(r.s, a) = ZeroNFT
     /\ NFT(r.s, parentAddr).owner = NFT(s, parentAddr).owner
     /\ NFT(r.s, parentAddr).mergeLevel = 1
     /\ NFT(r.s, parentAddr).mergeNumber = 16
     /\ NFT(r.s, parentAddr).metaURL
          = Append(MetaUrlPrefix(s, parentAddr), AddrString(parentAddr))
     /\ Len(r.s.logs) = Len(s.logs) + 1
     /\ SubSeq(r.s.logs, 1, Len(s.logs)) = s.logs
     /\ r.s.logs[Len(r.s.logs)].event = "MergeSNFT"
     /\ r.s.logs[Len(r.s.logs)].owner = NFT(s, parentAddr).owner
     /\ Len(r.s.logs[Len(r.s.logs)].subNFTs) = 16
     /\ \A b \in Leaves(parentAddr) :
          LET other == MergeNFT16(s, b).s
          IN /\ other.logs = r.s.logs
             /\ DOMAIN other.nft = DOMAIN r.s.nft
             /\ \A x \in DOMAIN other.nft :
                  [other.nft[x] EXCEPT !.snftRecipient = ZeroAddress]
                    = [r.s.nft[x] EXCEPT !.snftRecipient = ZeroAddress]

NextCanonical ==
  \/ OpCreateNFTByOfficial16
  \/ OpChangeNFTOwner
  \/ OpExchangeNFTToCurrency

SpecCanonical == InitSnft /\ [][NextCanonical]_vars

\* the addresses of the official SNFT records with an owner
OwnedSNFTs(s) ==
  {a \in DOMAIN s.nft : IsOfficialNFT(a) /\ s.nft[a].owner /= ZeroAddress}

Looked == UNION {Leaves(parentAddr) : parentAddr \in LeafParents} \cup Window \cup {1}

\* the address the 16-ary lookup of address reaches at depth
Ancestor16(address, depth) == PadZero(Cut(address, depth))

\* the address the 256-ary lookup of address reaches at depth
Ancestor(address, depth) ==
  IF depth = 0 THEN address ELSE PadZero(Cut(address, ByteCut(depth - 1)))

\* the record at addr lets a lookup end there at depth
Qualifies(s, addr, depth) ==
  NFT(s, addr).owner /= ZeroAddress /\ NFT(s, addr).mergeLevel = depth

\* r is what a lookup may return: a store address whose record has the owner
\* returned and the level of its zero low hex digits, or nothing
StoreAddressResult(s, r) ==
  IF r.ok
  THEN /\ r.owner /= ZeroAddress
       /\ NFT(s, r.nftStoreAddress).owner = r.owner
       /\ r.nftStoreAddress % (16 ^ NFT(s, r.nftStoreAddress).mergeLevel) = 0
  ELSE r.nftStoreAddress = ZeroAddress /\ r.owner = ZeroAddress

\* C17: a lookup of the store address it returned returns the same; the
\* record at the store address has the owner returned, which is not empty,
\* and the address has its low merge-level hex digits zero; the lookup
\* returns (zero, zero, false) exactly when no address it passes on the way
\* up to depth 3 holds an owned record of that depth
StoreAddressFixedPoint ==
  \A a \in Looked :
    LET r16 == GetNFTStoreAddress16(snft, a, 0)
        r == GetNFTStoreAddress(snft, a, 0)
    IN /\ StoreAddressResult(snft, r16)
       /\ r16.ok => GetNFTStoreAddress16(snft, r16.nftStoreAddress, 0) = r16
       /\ r16.ok <=> \E depth \in 0..QUERYDEPTHLIMIT16 :
                       Qualifies(snft, Ancestor16(a, depth), depth)
       /\ StoreAddressResult(snft, r)
       /\ r.ok => GetNFTStoreAddress(snft, r.nftStoreAddress, 0) = r
       /\ r.ok <=> \E depth \in 0..QUERYDEPTHLIMIT :
                     Qualifies(snft, Ancestor(a, depth), depth)

StoreAddressFixedPointWitness ==
  /\ panicked = ""
  /\ \E a, b \in Looked :
       /\ GetNFTStoreAddress16(snft, a, 0).ok
       /\ GetNFTStoreAddress16(snft, a, 0).nftStoreAddress /= a
       /\ NFT(snft, GetNFTStoreAddress16(snft, a, 0).nftStoreAddress).mergeLevel = 2
       /\ ~GetNFTStoreAddress16(snft, b, 0).ok


\* the exchangers a CreateNFTByOfficial16 of the model is called with
Exchangers == {<<a>> : a \in Accounts} \cup {<<Owner1, Owner1>>}

\* CreateNFTByOfficial16(snft, exchangers, mod) puts one SNFT for each
\* exchanger at the official mint, which it raises by one each time, until
\* no injected batch covers the official mint
MintsAtOfficialMint(exchangers, mod) ==
  LET r == CreateNFTByOfficial16(snft, exchangers, mod)
      before == GetOfficialMint(snft)
      minted == GetOfficialMint(r.s) - before
  IN ~r.panic =>
       /\ minted \in 0..Len(exchangers)
       /\ minted < Len(exchangers)
            => GetInjectedInfo(snft.injected, before + minted) = None
       /\ GetUserMint(r.s) = GetUserMint(snft)
       /\ \A n \in 1..minted :
            /\ before + n - 1 \notin DOMAIN snft.nft
            /\ GetNFTStoreAddress16(r.s, before + n - 1, 0).ok
            /\ GetNFTStoreAddress16(r.s, before + n - 1, 0).owner = exchangers[n]

\* CreateNFTByUser puts the NFT at the user mint, which it raises by one
MintsAtUserMint(metaurl) ==
  LET r == CreateNFTByUser(snft, Owner1, Owner1, metaurl)
      before == GetUserMint(snft)
  IN /\ r.nftAddr = before
     /\ before \notin DOMAIN snft.nft
     /\ NFT(r.s, before) = AccountNFT(Owner1, 0, 1, metaurl, Owner1)
     /\ GetUserMint(r.s) = before + 1
     /\ GetOfficialMint(r.s) = GetOfficialMint(snft)

\* C19: the official mint and the user mint never decrease; every official
\* SNFT is put at the official mint and every user NFT at the user mint, at
\* an address without a record, and the mint is raised by one for each; the
\* mint account starts with user mint 1 and official mint 0x8000...0000
MintsMonotone ==
  /\ [](panicked = "" =>
          /\ \A exchangers \in Exchangers, mod \in 1..MaxUserMint :
               MintsAtOfficialMint(exchangers, mod)
          /\ \A metaurl \in {<<"meta">>, <<"meta", "1">>} : MintsAtUserMint(metaurl)
          /\ snft.mint = None =>
               /\ GetUserMint(snft) = 1
               /\ GetOfficialMint(snft) = 8 * (16 ^ 3)
               /\ GetOrNewStakerStateObject(snft).mint
                    = Some([userMint |-> 1, officialMint |-> 8 * (16 ^ 3)]))
  /\ [][/\ GetOfficialMint(snft') >= GetOfficialMint(snft)
        /\ GetUserMint(snft') >= GetUserMint(snft)]_vars

MintsMonotoneWitness ==
  /\ panicked = ""
  /\ last.op = "CreateNFTByOfficial16"
  /\ GetUserMint(snft) > 1
  /\ Minted(snft) > Siblings
  /\ GetInjectedInfo(snft.injected, GetOfficialMint(snft)) /= None


(***************************************************************************)
(* Validators.  staking holds the validator list of the validator storage  *)
(* address and the pledged balance of every account; the balances, the     *)
(* staker list and the exchanger records are not kept.                     *)
(***************************************************************************)
MaxStake == 2
MaxBlock == 1
MaxCalls == 4

\* the block numbers of the model
Blocks == 0..MaxBlock

\* ValidatorList.AddValidator: the record of addr gets the balance added and
\* a non-empty proxy set, or a new record is added at the end
AddValidator(validators, addr, balance, proxy) ==
  IF \E n \in DOMAIN validators : validators[n].addr = addr
  THEN [n \in DOMAIN validators |->
          IF validators[n].addr /= addr THEN validators[n]
          ELSE [validators[n] EXCEPT
                  !.balance = @ + balance,
                  !.proxy = IF proxy /= ZeroAddress THEN proxy ELSE @]]
  ELSE Append(validators, [addr |-> addr, balance |-> balance, proxy |-> proxy])

\* ValidatorList.AddValidatorAmount: the balance of the record of addr raised
AddValidatorAmount(validators, addr, balance) ==
  [n \in DOMAIN validators |->
     IF validators[n].addr /= addr THEN validators[n]
     ELSE [validators[n] EXCEPT !.balance = @ + balance]]

\* ValidatorList.RemoveValidator: the balance of the record of addr lowered,
\* and the record removed when nothing is left
RemoveValidator(validators, addr, balance) ==
  SelectSeq([n \in DOMAIN validators |->
               IF validators[n].addr /= addr THEN validators[n]
               ELSE [validators[n] EXCEPT !.balance = @ - balance]],
            LAMBDA v : v.addr /= addr \/ v.balance > 0)

\* StakerList.AddStaker: the stake of addr raised, or a new record added
AddStaker(stakers, addr, balance) ==
  IF \E n \in DOMAIN stakers : stakers[n].addr = addr
  THEN [n \in DOMAIN stakers |->
          IF stakers[n].addr /= addr THEN stakers[n]
          ELSE [stakers[n] EXCEPT !.balance = @ + balance]]
  ELSE Append(stakers, [addr |-> addr, balance |-> balance])

\* StakerList.RemoveStaker: the stake of addr lowered, and the record removed
\* when nothing is left
RemoveStaker(stakers, addr, balance) ==
  SelectSeq([n \in DOMAIN stakers |->
               IF stakers[n].addr /= addr THEN stakers[n]
               ELSE [stakers[n] EXCEPT !.balance = @ - balance]],
            LAMBDA v : v.addr /= addr \/ v.balance > 0)

\* the stake the staker list holds for addr
StakeOf(stakers, addr) ==
  IF \E n \in DOMAIN stakers : stakers[n].addr = addr
  THEN (CHOOSE v \in {stakers[n] : n \in DOMAIN stakers} : v.addr = addr).balance
  ELSE 0

\* stateObject.AddBalance, SubBalance on the accounts of the staking model
AddBalanceOf(s, addr, amount) == [s EXCEPT !.balance[addr] = @ + amount]
SubBalanceOf(s, addr, amount) == [s EXCEPT !.balance[addr] = @ - amount]

AddPledgedBalance(s, addr, amount) == [s EXCEPT !.pledged[addr] = @ + amount]
SubPledgedBalance(s, addr, amount) == [s EXCEPT !.pledged[addr] = @ - amount]

SetPledgedBlockNumber(s, addr, blocknumber) ==
  [s EXCEPT !.pledgedBlockNumber[addr] = blocknumber]

\* stateObject.SetExchangerInfo, SetExchangerInfoflag, OpenExchanger: the
\* flag and the block number of the account (name, url, fee rate and agent
\* recipient are not kept)
SetExchangerInfo(s, addr, flag, blocknumber) ==
  [s EXCEPT !.exchangerFlag[addr] = flag, !.blockNumber[addr] = blocknumber]

\* stateObject.CloseExchanger: the flag cleared
soCloseExchanger(s, addr) == [s EXCEPT !.exchangerFlag[addr] = FALSE]

SetExchangerBalance(s, addr, amount) ==
  [s EXCEPT !.exchangerBalance[addr] = amount]
AddExchangerBalance(s, addr, amount) ==
  [s EXCEPT !.exchangerBalance[addr] = @ + amount]
SubExchangerBalance(s, addr, amount) ==
  [s EXCEPT !.exchangerBalance[addr] = @ - amount]

\* stateObject.StakerPledge, RemoveStakerPledge: the staker extension of
\* from for the validator addr
soStakerPledge(s, from, addr, amount) ==
  [s EXCEPT !.stakerExtension[from][addr] = @ + amount]
RemoveStakerPledge(s, from, addr, amount) ==
  [s EXCEPT !.stakerExtension[from][addr] =
              IF @ - amount > 0 THEN @ - amount ELSE 0]

GetStakerPledgedBalance(s, from, addr) == s.stakerExtension[from][addr]

\* PledgeToken without the test of the proxy
PledgeTokenUnchecked(s, address, amount, proxy, blocknumber) ==
  [s |-> SetPledgedBlockNumber(
           AddPledgedBalance(
             SubBalanceOf(
               [s EXCEPT !.validators = AddValidator(@, address, amount, proxy)],
               address, amount),
             address, amount),
           address, blocknumber),
   err |-> ""]

PledgeToken(s, address, amount, proxy, blocknumber) ==
  IF \E n \in DOMAIN s.validators :
       /\ s.validators[n].proxy /= ZeroAddress
       /\ s.validators[n].addr /= address
       /\ s.validators[n].proxy = proxy
  THEN [s |-> s, err |-> "cannot delegate repeatedly"]
  ELSE [s |-> SetPledgedBlockNumber(
                AddPledgedBalance(
                  SubBalanceOf(
                    [s EXCEPT !.validators =
                       AddValidator(@, address, amount, proxy)],
                    address, amount),
                  address, amount),
                address, blocknumber),
        err |-> ""]

StakerPledge(s, from, address, amount, blocknumber) ==
  [s |-> SetPledgedBlockNumber(
           AddPledgedBalance(
             soStakerPledge(
               SetExchangerInfo(
                 SubBalanceOf(
                   [s EXCEPT
                      !.validators = AddValidatorAmount(@, address, amount),
                      !.stakers = AddStaker(@, from, amount)],
                   from, amount),
                 from, TRUE, blocknumber),
               from, address, amount),
             address, amount),
           from, blocknumber),
   err |-> ""]

MinerConsign(s, address, proxy) ==
  IF ~\E n \in DOMAIN s.validators : s.validators[n].addr = address
  THEN [s |-> s, err |-> "no repeated pledge"]
  ELSE IF \E n \in DOMAIN s.validators :
            /\ s.validators[n].proxy /= ZeroAddress
            /\ s.validators[n].proxy = proxy
  THEN [s |-> s, err |-> "cannot delegate repeatedly"]
  ELSE [s |-> [s EXCEPT !.validators = AddValidator(@, address, 0, proxy)],
        err |-> ""]

MinerBecome(s, address, proxy) ==
  [s |-> [s EXCEPT !.validators =
            AddValidator(@, address, s.pledged[address], proxy)],
   err |-> ""]

CancelPledgedToken(s, address, amount) ==
  AddBalanceOf(
    SubPledgedBalance(
      [s EXCEPT !.validators = RemoveValidator(@, address, amount)],
      address, amount),
    address, amount)

\* 700 ERB, in units of 10^18
Erb100 == 700

CancelStakerPledge(s, from, address, amount, blocknumber) ==
  LET removed == [s EXCEPT
                    !.validators = RemoveValidator(@, address, amount),
                    !.stakers = RemoveStaker(@, from, amount)]
      flagged == IF Erb100 > GetStakerPledgedBalance(s, from, address) - amount
                 THEN SetExchangerInfo(removed, from, FALSE, blocknumber)
                 ELSE removed
  IN AddBalanceOf(
       SubPledgedBalance(
         RemoveStakerPledge(flagged, from, address, amount),
         address, amount),
       from, amount)

OpenExchanger(s, addr, amount, blocknumber) ==
  SetExchangerInfo(
    SetExchangerBalance(
      SubBalanceOf([s EXCEPT !.stakers = AddStaker(@, addr, amount)],
                   addr, amount),
      addr, amount),
    addr, TRUE, blocknumber)

\* CloseExchanger whatever the block number
CloseExchangerAlways(s, addr, blocknumber) ==
  soCloseExchanger(
    SetExchangerBalance(
      AddBalanceOf(
        [s EXCEPT !.stakers = RemoveStaker(@, addr, s.exchangerBalance[addr])],
        addr, s.exchangerBalance[addr]),
      addr, 0),
    addr)

CloseExchanger(s, addr, blocknumber) ==
  IF blocknumber > s.blockNumber[addr]
  THEN soCloseExchanger(
         SetExchangerBalance(
           AddBalanceOf(
             [s EXCEPT !.stakers =
                RemoveStaker(@, addr, s.exchangerBalance[addr])],
             addr, s.exchangerBalance[addr]),
           addr, 0),
         addr)
  ELSE s

AddExchangerToken(s, address, amount) ==
  AddExchangerBalance(
    SubBalanceOf([s EXCEPT !.stakers = AddStaker(@, address, amount)],
                 address, amount),
    address, amount)

SubExchangerToken(s, address, amount) ==
  AddBalanceOf(
    SubExchangerBalance(
      [s EXCEPT !.stakers = RemoveStaker(@, address, amount)],
      address, amount),
    address, amount)

\* no nominee: GetNominee gives nil, or a record with the empty address
NoNominee == [address |-> ZeroAddress, dir |-> 0]

\* an account with one unit, no validator, no staker, nothing pledged
NewStaking ==
  [validators |-> <<>>,
   stakers |-> <<>>,
   balance |-> [a \in Accounts |-> 1],
   pledged |-> [a \in Accounts |-> 0],
   pledgedBlockNumber |-> [a \in Accounts |-> 0],
   exchangerFlag |-> [a \in Accounts |-> FALSE],
   blockNumber |-> [a \in Accounts |-> 0],
   exchangerBalance |-> [a \in Accounts |-> 0],
   stakerExtension |-> [a \in Accounts |-> [b \in Accounts |-> 0]],
   voteWeight |-> [a \in Accounts |-> 0],
   voteBlockNumber |-> [a \in Accounts |-> 0],
   nominee |-> NoNominee]

\* the proxies of the model: none, or one of two accounts
Proxies == {ZeroAddress} \cup {a + Cardinality(Accounts) : a \in Accounts}

InitStaking ==
  /\ staking = NewStaking
  /\ prefetcher = NoPrefetcher
  /\ header = NoHeader
  /\ snft = NoSnft
  /\ sdb = [i \in Insts |-> NoInstance]
  /\ missingNodes = {}
  /\ snapBase = HealthyRoot
  /\ panicked = ""
  /\ last = Did("New", 1)
  /\ taken = [i \in Insts |-> <<>>]
  /\ appended = 0

\* one call on the validators, leaving s
StakingCall(op, s) ==
  /\ appended < MaxCalls
  /\ \A n \in DOMAIN s.validators : s.validators[n].balance \in 0..MaxStake
  /\ \A n \in DOMAIN s.stakers : s.stakers[n].balance \in 0..MaxStake
  /\ \A a \in Accounts :
       /\ s.pledged[a] \in -1..MaxStake
       /\ s.balance[a] \in -1..MaxStake
       /\ s.exchangerBalance[a] \in -1..MaxStake
  /\ staking' = s
  /\ last' = Did(op, 1)
  /\ appended' = appended + 1
  /\ UNCHANGED <<sdb, missingNodes, snapBase, panicked, taken, snft,
                 prefetcher, header>>

OpPledgeToken ==
  \E address \in Accounts, amount \in 0..MaxStake, proxy \in Proxies,
     blocknumber \in Blocks :
    StakingCall("PledgeToken",
                PledgeToken(staking, address, amount, proxy, blocknumber).s)

OpStakerPledge ==
  \E from \in Accounts, address \in Accounts, amount \in 1..MaxStake,
     blocknumber \in Blocks :
    StakingCall("StakerPledge",
                StakerPledge(staking, from, address, amount, blocknumber).s)

OpMinerConsign ==
  \E address \in Accounts, proxy \in Proxies :
    StakingCall("MinerConsign", MinerConsign(staking, address, proxy).s)

OpMinerBecome ==
  \E address \in Accounts, proxy \in Proxies :
    StakingCall("MinerBecome", MinerBecome(staking, address, proxy).s)

OpCancelPledgedToken ==
  \E address \in Accounts, amount \in 1..MaxStake :
    StakingCall("CancelPledgedToken",
                CancelPledgedToken(staking, address, amount))

OpCancelStakerPledge ==
  \E from \in Accounts, address \in Accounts, amount \in 1..MaxStake,
     blocknumber \in Blocks :
    StakingCall("CancelStakerPledge",
                CancelStakerPledge(staking, from, address, amount, blocknumber))

NextStaking ==
  \/ OpPledgeToken
  \/ OpStakerPledge
  \/ OpMinerConsign
  \/ OpMinerBecome
  \/ OpCancelPledgedToken
  \/ OpCancelStakerPledge

SpecStaking == InitStaking /\ [][NextStaking]_vars

\* C20: no two validator records with different addresses have the same
\* non-empty proxy
ProxiesUnique ==
  \A n, m \in DOMAIN staking.validators :
    (/\ staking.validators[n].addr /= staking.validators[m].addr
     /\ staking.validators[n].proxy /= ZeroAddress)
      => staking.validators[n].proxy /= staking.validators[m].proxy

\* some validator other than address has the non-empty proxy
ProxyTaken(s, address, proxy) ==
  /\ proxy /= ZeroAddress
  /\ \E n \in DOMAIN s.validators :
       /\ s.validators[n].addr /= address
       /\ s.validators[n].proxy = proxy

\* the validator records of addr
RecordsOf(validators, addr) ==
  {validators[n] : n \in {k \in DOMAIN validators : validators[k].addr = addr}}

\* C21: PledgeToken is refused with "cannot delegate repeatedly" exactly when
\* a validator with another address has the same non-empty proxy; refused, it
\* leaves the validators and the balance, pledged balance and pledged block
\* number of the owner as they were; accepted, it moves the amount from the
\* balance to the pledged balance, adds or updates the validator record and
\* sets the pledged block number to the block
PledgeRefusedIffProxyTaken ==
  staking /= NoStaking =>
    \A address \in Accounts, amount \in 0..MaxStake, proxy \in Proxies,
       blocknumber \in Blocks :
      LET r == PledgeToken(staking, address, amount, proxy, blocknumber)
          before == RecordsOf(staking.validators, address)
          after == RecordsOf(r.s.validators, address)
      IN /\ (r.err = "cannot delegate repeatedly")
              <=> ProxyTaken(staking, address, proxy)
         /\ r.err /= "" =>
              /\ r.s.validators = staking.validators
              /\ r.s.balance[address] = staking.balance[address]
              /\ r.s.pledged[address] = staking.pledged[address]
              /\ r.s.pledgedBlockNumber[address]
                   = staking.pledgedBlockNumber[address]
         /\ r.err = "" =>
              /\ r.s.balance[address] = staking.balance[address] - amount
              /\ r.s.pledged[address] = staking.pledged[address] + amount
              /\ r.s.balance[address] + r.s.pledged[address]
                   = staking.balance[address] + staking.pledged[address]
              /\ r.s.pledgedBlockNumber[address] = blocknumber
              /\ Cardinality(after) = 1
              /\ \A v \in after :
                   IF before = {}
                   THEN v.balance = amount /\ v.proxy = proxy
                   ELSE \A u \in before :
                          /\ v.balance = u.balance + amount
                          /\ v.proxy = IF proxy /= ZeroAddress THEN proxy
                                       ELSE u.proxy
              /\ \A a \in Accounts \ {address} :
                   RecordsOf(r.s.validators, a)
                     = RecordsOf(staking.validators, a)

\* an accepted pledge with a proxy has been made, so that another owner's
\* pledge with that proxy is refused, and a block number has been stamped
PledgeRefusedWitness ==
  /\ staking /= NoStaking
  /\ last.op = "PledgeToken"
  /\ \E address \in Accounts, proxy \in Proxies :
       /\ ProxyTaken(staking, address, proxy)
       /\ PledgeToken(staking, address, 1, proxy, 1).err /= ""
  /\ \E a \in Accounts :
       staking.pledged[a] > 0 /\ staking.pledgedBlockNumber[a] = 1

MaxWeight == 2

AddVoteWeight(s, addr, amount) == [s EXCEPT !.voteWeight[addr] = @ + amount]
SubVoteWeight(s, addr, amount) == [s EXCEPT !.voteWeight[addr] = @ - amount]

SetVoteBlockNumber(s, addr, blocknumber) ==
  [s EXCEPT !.voteBlockNumber[addr] = blocknumber]

\* VoteOfficialNFT that also takes a candidate with the score of the nominee
VoteOfficialNFTOnTie(s, nominatedOfficialNFT, blocknumber, shared) ==
  LET address == nominatedOfficialNFT.address
      held == s.nominee.address /= ZeroAddress
      votes == s.voteWeight[address] * (blocknumber - s.voteBlockNumber[address])
      nominatedVotes ==
        IF held
        THEN s.voteWeight[s.nominee.address]
               * (blocknumber - s.voteBlockNumber[s.nominee.address])
        ELSE 0
  IN IF votes >= nominatedVotes
     THEN [s |-> [s EXCEPT !.nominee = nominatedOfficialNFT], err |-> ""]
     ELSE [s |-> s, err |-> "voteweight less than previous one"]

\* StateDB.VoteOfficialNFT. voteWeight.Mul(voteWeight, voteSubNumber) and
\* nominatedWeight.Mul(nominatedWeight, nominatedSubNumber) write into the
\* big.Int that stateObject.VoteWeight() returned: when that is the stored
\* one (shared), the products are left in the accounts, and for a candidate
\* that is the nominee both names are one number
VoteOfficialNFT(s, nominatedOfficialNFT, blocknumber, shared) ==
  LET address == nominatedOfficialNFT.address
      held == s.nominee.address /= ZeroAddress
      voteSubNumber == blocknumber - s.voteBlockNumber[address]
      nominatedSubNumber ==
        IF held THEN blocknumber - s.voteBlockNumber[s.nominee.address]
        ELSE blocknumber
      one == shared /\ held /\ s.nominee.address = address
      product == s.voteWeight[address] * voteSubNumber
      nominatedWeight ==
        IF one THEN product * nominatedSubNumber
        ELSE IF held THEN s.voteWeight[s.nominee.address] * nominatedSubNumber
        ELSE 0
      voteWeight == IF one THEN nominatedWeight ELSE product
      written ==
        IF ~shared THEN s
        ELSE IF held
        THEN [s EXCEPT !.voteWeight =
                [[@ EXCEPT ![address] = voteWeight]
                   EXCEPT ![s.nominee.address] = nominatedWeight]]
        ELSE [s EXCEPT !.voteWeight[address] = voteWeight]
  IN IF voteWeight > nominatedWeight
     THEN [s |-> [written EXCEPT !.nominee = nominatedOfficialNFT], err |-> ""]
     ELSE [s |-> written, err |-> "voteweight less than previous one"]

\* the candidates of the model
Candidates == [address : Accounts, dir : 1..2]

\* one call on the votes, leaving s
VoteCall(op, s) ==
  /\ \A a \in Accounts : s.voteWeight[a] \in -MaxWeight..MaxWeight
  /\ staking' = s
  /\ last' = Did(op, 1)
  /\ UNCHANGED <<sdb, missingNodes, snapBase, panicked, taken, appended,
                 snft, prefetcher, header>>

OpAddVoteWeight ==
  \E addr \in Accounts, amount \in 1..MaxWeight :
    VoteCall("AddVoteWeight", AddVoteWeight(staking, addr, amount))

OpSubVoteWeight ==
  \E addr \in Accounts, amount \in 1..MaxWeight :
    VoteCall("SubVoteWeight", SubVoteWeight(staking, addr, amount))

OpSetVoteBlockNumber ==
  \E addr \in Accounts, blocknumber \in Blocks :
    VoteCall("SetVoteBlockNumber",
             SetVoteBlockNumber(staking, addr, blocknumber))

OpVoteOfficialNFT ==
  \E nominated \in Candidates, blocknumber \in Blocks, shared \in BOOLEAN :
    VoteCall("VoteOfficialNFT",
             VoteOfficialNFT(staking, nominated, blocknumber, shared).s)

NextVote ==
  \/ OpAddVoteWeight
  \/ OpSubVoteWeight
  \/ OpSetVoteBlockNumber
  \/ OpVoteOfficialNFT

SpecVote == InitStaking /\ [][NextVote]_vars

\* vote_weight * (block - vote_block_number) of the account, 0 for no account
Score(s, addr, blocknumber) ==
  IF addr = ZeroAddress THEN 0
  ELSE s.voteWeight[addr] * (blocknumber - s.voteBlockNumber[addr])

\* C22: VoteOfficialNFT stores the candidate as the nominee exactly when the
\* score of the candidate, vote weight times (block - vote block number), is
\* strictly greater than the score of the stored nominee (0 without a
\* nominee); otherwise, equal scores included, it fails and the stored
\* nominee stays
VoteReplacesIffGreater ==
  staking /= NoStaking =>
    \A nominated \in Candidates, blocknumber \in Blocks, shared \in BOOLEAN :
      LET r == VoteOfficialNFT(staking, nominated, blocknumber, shared)
          greater == Score(staking, nominated.address, blocknumber)
                       > Score(staking, staking.nominee.address, blocknumber)
      IN /\ (r.err = "") <=> greater
         /\ greater => r.s.nominee = nominated
         /\ ~greater =>
              /\ r.err = "voteweight less than previous one"
              /\ r.s.nominee = staking.nominee

\* a nominee with a positive score is stored, and a candidate of another
\* address has the same score at some block
VoteReplacesWitness ==
  /\ staking /= NoStaking
  /\ last.op = "VoteOfficialNFT"
  /\ staking.nominee.address /= ZeroAddress
  /\ \E nominated \in Candidates, blocknumber \in Blocks :
       /\ nominated.address /= staking.nominee.address
       /\ Score(staking, nominated.address, blocknumber) > 0
       /\ Score(staking, nominated.address, blocknumber)
            = Score(staking, staking.nominee.address, blocknumber)

\* C23: the balance, pledged balance, exchanger balance and vote weight of
\* every account are at least 0
BalancesNonNegative ==
  staking /= NoStaking =>
    \A a \in Accounts :
      /\ staking.balance[a] >= 0
      /\ staking.pledged[a] >= 0
      /\ staking.exchangerBalance[a] >= 0
      /\ staking.voteWeight[a] >= 0

(***************************************************************************)
(* The trie prefetcher.  prefetcher[i] is s.prefetcher of instance i: the  *)
(* root it was opened at, the addresses Finalise hinted and the addresses  *)
(* the worker has visited.                                                 *)
(***************************************************************************)
newTriePrefetcher(root) == Some([root |-> root, hinted |-> {}, visited |-> {}])

\* triePrefetcher.prefetch(root, addrs)
prefetch(p, addrs) ==
  IF p = None THEN p ELSE Some([Get(p) EXCEPT !.hinted = @ \cup addrs])

\* triePrefetcher.trie(root): the trie opened at the root, once every hinted
\* address has been visited; nil before, and nil when nothing was hinted
prefetcherTrie(p) ==
  IF p /= None /\ Get(p).hinted /= {} /\ Get(p).hinted \subseteq Get(p).visited
  THEN Some(Get(p).root)
  ELSE None

\* the addresses Finalise ships to the prefetcher
addressesToPrefetch(s) ==
  {a \in Addrs : s.dirties[a] > 0 /\ IsSome(s.stateObjects[a])}

\* StateDB.StartPrefetcher: s.originalRoot is the root New was given
StartPrefetcher(s, originalRoot) ==
  IF s.snapOn THEN newTriePrefetcher(originalRoot) ELSE None

\* StateDB.IntermediateRoot of an instance with a prefetcher: prefetched is
\* what prefetcher.trie(s.originalRoot) returns
IntermediateRootWith(s, prefetched, deleteEmptyObjects, order) ==
  LET s1 == Finalise(s, deleteEmptyObjects)
      s2 == UpdateRoots(s1, s1.stateObjectsPending)
      s3 == IF prefetched /= None THEN [s2 EXCEPT !.trie = Get(prefetched)]
            ELSE s2
      s4 == WritePending(s3, order)
  IN [s4 EXCEPT !.stateObjectsPending = {}]

\* StateDB.Commit of an instance with a prefetcher
CommitWith(s, prefetched, deleteEmptyObjects, order) ==
  IF CommitFails(s) THEN s
  ELSE LET s1 == IntermediateRootWith(s, prefetched, deleteEmptyObjects, order)
           s2 == CommitObjects(s1, s1.stateObjectsDirty)
           s3 == [s2 EXCEPT !.stateObjectsDirty = {}]
       IN IF s3.snapOn
          THEN [s3 EXCEPT !.snapOn = FALSE, !.snapDestructs = {},
                          !.snapAccounts = [a \in Addrs |-> None],
                          !.snapStorage = [a \in Addrs |-> None]]
          ELSE s3

\* the same call on an instance with a prefetcher (1) and on one that never
\* had one (2), leaving s1, s2 and the prefetcher p
Prefetching(did, s1, s2, p) ==
  /\ panicked = ""
  /\ InBounds(s1)
  /\ InBounds(s2)
  /\ appended + Grown(1, s1) <= MaxAppends
  /\ sdb' = [i \in Insts |-> IF i = 1 THEN s1 ELSE s2]
  /\ prefetcher' = [prefetcher EXCEPT ![1] = p]
  /\ last' = did
  /\ appended' = appended + Grown(1, s1)
  /\ UNCHANGED <<missingNodes, snapBase, panicked, taken, snft, staking,
                 header>>

OpStartPrefetcher ==
  Prefetching(Did("StartPrefetcher", 1), sdb[1], sdb[2],
              StartPrefetcher(sdb[1], snapBase))

OpStopPrefetcher ==
  Prefetching(Did("StopPrefetcher", 1), sdb[1], sdb[2], None)

\* the worker visits one hinted address
WorkerStep ==
  /\ prefetcher[1] /= None
  /\ \E a \in Get(prefetcher[1]).hinted \ Get(prefetcher[1]).visited :
       Prefetching(Did("prefetch", 1), sdb[1], sdb[2],
                   Some([Get(prefetcher[1]) EXCEPT !.visited = @ \cup {a}]))

PrefetchingAddBalance(addr, amount) ==
  Prefetching(Did("write", 1), AddBalance(sdb[1], addr, amount),
              AddBalance(sdb[2], addr, amount), prefetcher[1])

PrefetchingFinalise(deleteEmptyObjects) ==
  Prefetching(Did("Finalise", 1), Finalise(sdb[1], deleteEmptyObjects),
              Finalise(sdb[2], deleteEmptyObjects),
              prefetch(prefetcher[1], addressesToPrefetch(sdb[1])))

\* the prefetcher as IntermediateRoot finds it: Finalise has hinted the
\* dirty addresses and the worker has visited some more of them
Found(p, s, progress) ==
  LET hinted == prefetch(p, addressesToPrefetch(s)) IN
  IF hinted = None THEN None
  ELSE Some([Get(hinted) EXCEPT
               !.visited = @ \cup (progress \cap Get(hinted).hinted)])

PrefetchingIntermediateRoot(deleteEmptyObjects) ==
  /\ \A i \in Insts : ~NilPending(Finalise(sdb[i], deleteEmptyObjects))
  /\ \E o1 \in Orders(PendingAfterFinalise(sdb[1], deleteEmptyObjects)),
        o2 \in Orders(PendingAfterFinalise(sdb[2], deleteEmptyObjects)),
        progress \in SUBSET Addrs :
       Prefetching(
         [Did("IntermediateRoot", 1) EXCEPT !.orders = <<o1, o2>>],
         IntermediateRootWith(
           sdb[1], prefetcherTrie(Found(prefetcher[1], sdb[1], progress)),
           deleteEmptyObjects, o1),
         IntermediateRoot(sdb[2], deleteEmptyObjects, o2),
         None)

PrefetchingCommit(deleteEmptyObjects) ==
  /\ \A i \in Insts : ~NilPending(Finalise(sdb[i], deleteEmptyObjects))
  /\ \A i \in Insts : ~NilDirty(Finalise(sdb[i], deleteEmptyObjects))
  /\ \E o1 \in Orders(PendingAfterFinalise(sdb[1], deleteEmptyObjects)),
        o2 \in Orders(PendingAfterFinalise(sdb[2], deleteEmptyObjects)),
        progress \in SUBSET Addrs :
       Prefetching(
         [Did(IF CommitFails(sdb[1]) THEN "CommitAborted" ELSE "Commit", 1)
            EXCEPT !.orders = <<o1, o2>>],
         CommitWith(
           sdb[1], prefetcherTrie(Found(prefetcher[1], sdb[1], progress)),
           deleteEmptyObjects, o1),
         Commit(sdb[2], deleteEmptyObjects, o2),
         IF CommitFails(sdb[1]) THEN prefetcher[1] ELSE None)

NextPrefetch ==
  \/ OpStartPrefetcher
  \/ OpStopPrefetcher
  \/ WorkerStep
  \/ \E a \in Addrs : PrefetchingAddBalance(a, 1)
  \/ \E d \in BOOLEAN : PrefetchingFinalise(d)
  \/ \E d \in BOOLEAN : PrefetchingIntermediateRoot(d)
  \/ \E d \in BOOLEAN : PrefetchingCommit(d)

SpecPrefetch == InitPair /\ [][NextPrefetch]_vars

\* C24: an instance with a prefetcher and an instance without one, given the
\* same calls, have the same root and give the same balances
PrefetcherTransparent ==
  (sdb[1].alive /\ sdb[2].alive) =>
    /\ Hash(sdb[1]) = Hash(sdb[2])
    /\ \A a \in Addrs : GetBalance(sdb[1], a) = GetBalance(sdb[2], a)

\* the journal entries a call that leads from s to r has appended
Appended(s, r) == SubSeq(r.journal, Len(s.journal) + 1, Len(r.journal))

\* the journal entries of s behind the snapshot revid
Since(s, revid) ==
  LET idx == Search(0, Len(s.validRevisions), s.validRevisions, revid) IN
  SubSeq(s.journal, s.validRevisions[idx + 1].journalIndex + 1,
         Len(s.journal))

\* C25: AddAddressToAccessList appends an add-account entry exactly when the
\* address is not in the list, AddSlotToAccessList an add-slot entry exactly
\* when the slot is not, preceded by an add-account entry when the address is
\* not; RevertToSnapshot takes out of the list exactly the addresses and
\* slots of the entries appended since the snapshot
AccessListJournaled ==
  LET s == sdb[1] IN
  s.alive =>
    /\ \A a \in Addrs :
         Appended(s, AddAddressToAccessList(s, a))
           = IF ContainsAddress(s.accessList, a) THEN <<>>
             ELSE <<[kind |-> "accessListAddAccount", address |-> a]>>
    /\ \A a \in Addrs, k \in Slots :
         Appended(s, AddSlotToAccessList(s, a, k))
           = (IF ContainsAddress(s.accessList, a) THEN <<>>
              ELSE <<[kind |-> "accessListAddAccount", address |-> a]>>)
             \o (IF Contains(s.accessList, a, k) THEN <<>>
                 ELSE <<[kind |-> "accessListAddSlot", address |-> a,
                         slot |-> k]>>)
    /\ \A revid \in 0..MaxRevisions :
         ~RevertPanics(s, revid) =>
           LET r == RevertToSnapshot(s, revid)
               since == Since(s, revid)
               accounts == {n \in DOMAIN since :
                              since[n].kind = "accessListAddAccount"}
               slots == {n \in DOMAIN since :
                           since[n].kind = "accessListAddSlot"}
           IN /\ r.accessList.addresses
                   = s.accessList.addresses
                       \ {since[n].address : n \in accounts}
              /\ r.accessList.slots
                   = s.accessList.slots
                       \ {<<since[n].address, since[n].slot>> : n \in slots}

\* a slot of an address that was not in the list has been added after a
\* snapshot, and the revert to it takes both out while an older address stays
AccessListJournaledWitness ==
  LET s == sdb[1] IN
  /\ s.alive
  /\ last.op = "write"
  /\ \E revid \in 0..MaxRevisions :
       /\ ~RevertPanics(s, revid)
       /\ LET r == RevertToSnapshot(s, revid) IN
          /\ r.accessList.addresses /= {}
          /\ r.accessList.addresses /= s.accessList.addresses
          /\ r.accessList.slots /= s.accessList.slots

\* C26: GetBalance(addr) right after CreateAccount(addr) is GetBalance(addr)
\* right before it, also for an address that has suicided since the last
\* Finalise and for one that a Finalise has deleted
CreateAccountKeepsBalance ==
  LET s == sdb[1] IN
  s.alive =>
    \A addr \in Addrs :
      GetBalance(CreateAccount(s, addr), addr) = GetBalance(s, addr)

\* one account has suicided and is not yet deleted, one is deleted by a
\* Finalise, and one has a balance
CreateAccountKeepsBalanceWitness ==
  LET s == sdb[1] IN
  /\ s.alive
  /\ \E a \in Addrs :
       /\ IsSome(s.stateObjects[a])
       /\ objAt(s, a).suicided
       /\ ~objAt(s, a).deleted
  /\ \E a \in Addrs : IsSome(s.stateObjects[a]) /\ objAt(s, a).deleted
  /\ \E a \in Addrs : GetBalance(s, a) > 0

\* StateDB.ModifyOpenExchangerTime
ModifyOpenExchangerTime(s, addr, blocknumber) ==
  [s EXCEPT !.blockNumber[addr] = blocknumber]

OpOpenExchanger ==
  \E addr \in Accounts, amount \in 0..MaxStake, blocknumber \in Blocks :
    StakingCall("OpenExchanger",
                OpenExchanger(staking, addr, amount, blocknumber))

OpModifyOpenExchangerTime ==
  \E addr \in Accounts, blocknumber \in Blocks :
    StakingCall("ModifyOpenExchangerTime",
                ModifyOpenExchangerTime(staking, addr, blocknumber))

OpCloseExchanger ==
  \E addr \in Accounts, blocknumber \in Blocks :
    StakingCall("CloseExchanger", CloseExchanger(staking, addr, blocknumber))

OpAddExchangerToken ==
  \E address \in Accounts, amount \in 1..MaxStake :
    StakingCall("AddExchangerToken",
                AddExchangerToken(staking, address, amount))

OpSubExchangerToken ==
  \E address \in Accounts, amount \in 1..MaxStake :
    StakingCall("SubExchangerToken",
                SubExchangerToken(staking, address, amount))

NextExchanger ==
  \/ OpOpenExchanger
  \/ OpModifyOpenExchangerTime
  \/ OpCloseExchanger
  \/ OpAddExchangerToken
  \/ OpSubExchangerToken
  \/ OpStakerPledge

SpecExchanger == InitStaking /\ [][NextExchanger]_vars

IstanbulExtraVanity == 32
IstanbulExtraSeal == 65

\* n zero bytes
Zeros(n) == [i \in 1..n |-> 0]

\* the four validators of the tests
TestValidators ==
  <<<<68, 173, 208, 236, 49, 15, 17, 90, 14, 96, 59, 45, 125, 185, 240, 103,
    119, 142, 175, 138>>,
    <<41, 79, 199, 232, 242, 43, 59, 205, 207, 149, 93, 215, 255, 59, 162, 237,
    131, 63, 130, 18>>,
    <<107, 234, 174, 215, 129, 210, 210, 171, 99, 80, 245, 196, 86, 106, 44,
    110, 170, 196, 7, 166>>,
    <<139, 231, 104, 18, 247, 101, 194, 70, 65, 236, 99, 220, 40, 82, 179, 120,
    171, 162, 180, 64>>>>

\* the bytes TestPrepareExtra expects behind the vanity
PrepareExtraResult ==
  <<249, 1, 37, 248, 84, 148, 68, 173, 208, 236, 49, 15, 17, 90, 14, 96, 59,
    45, 125, 185, 240, 103, 119, 142, 175, 138, 148, 41, 79, 199, 232, 242,
    43, 59, 205, 207, 149, 93, 215, 255, 59, 162, 237, 131, 63, 130, 18, 148,
    107, 234, 174, 215, 129, 210, 210, 171, 99, 80, 245, 196, 86, 106, 44,
    110, 170, 196, 7, 166, 148, 139, 231, 104, 18, 247, 101, 194, 70, 65, 236,
    99, 220, 40, 82, 179, 120, 171, 162, 180, 64, 128, 192, 248, 84, 148, 68,
    173, 208, 236, 49, 15, 17, 90, 14, 96, 59, 45, 125, 185, 240, 103, 119,
    142, 175, 138, 148, 41, 79, 199, 232, 242, 43, 59, 205, 207, 149, 93, 215,
    255, 59, 162, 237, 131, 63, 130, 18, 148, 107, 234, 174, 215, 129, 210,
    210, 171, 99, 80, 245, 196, 86, 106, 44, 110, 170, 196, 7, 166, 148, 139,
    231, 104, 18, 247, 101, 194, 70, 65, 236, 99, 220, 40, 82, 179, 120, 171,
    162, 180, 64, 248, 84, 148, 68, 173, 208, 236, 49, 15, 17, 90, 14, 96, 59,
    45, 125, 185, 240, 103, 119, 142, 175, 138, 148, 41, 79, 199, 232, 242,
    43, 59, 205, 207, 149, 93, 215, 255, 59, 162, 237, 131, 63, 130, 18, 148,
    107, 234, 174, 215, 129, 210, 210, 171, 99, 80, 245, 196, 86, 106, 44,
    110, 170, 196, 7, 166, 148, 139, 231, 104, 18, 247, 101, 194, 70, 65, 236,
    99, 220, 40, 82, 179, 120, 171, 162, 180, 64, 160, 0, 0, 0, 0, 0, 0, 0, 0,
    0, 0, 0, 0, 0, 0, 0, 0, 0, 0, 0, 0, 0, 0, 0, 0, 0, 0, 0, 0, 0, 0, 0, 0>>

\* istRawData of TestWriteSeal
WriteSealRawData ==
  <<248, 189, 248, 84, 148, 68, 173, 208, 236, 49, 15, 17, 90, 14, 96, 59, 45,
    125, 185, 240, 103, 119, 142, 175, 138, 148, 41, 79, 199, 232, 242, 43,
    59, 205, 207, 149, 93, 215, 255, 59, 162, 237, 131, 63, 130, 18, 148, 107,
    234, 174, 215, 129, 210, 210, 171, 99, 80, 245, 196, 86, 106, 44, 110,
    170, 196, 7, 166, 148, 139, 231, 104, 18, 247, 101, 194, 70, 65, 236, 99,
    220, 40, 82, 179, 120, 171, 162, 180, 64, 184, 65, 1, 2, 3, 0, 0, 0, 0, 0,
    0, 0, 0, 0, 0, 0, 0, 0, 0, 0, 0, 0, 0, 0, 0, 0, 0, 0, 0, 0, 0, 0, 0, 0, 0,
    0, 0, 0, 0, 0, 0, 0, 0, 0, 0, 0, 0, 0, 0, 0, 0, 0, 0, 0, 0, 0, 0, 0, 0, 0,
    0, 0, 0, 0, 0, 0, 0, 192, 192, 192, 160, 0, 0, 0, 0, 0, 0, 0, 0, 0, 0, 0,
    0, 0, 0, 0, 0, 0, 0, 0, 0, 0, 0, 0, 0, 0, 0, 0, 0, 0, 0, 0, 0>>

\* istRawData of TestWriteCommittedSeals
WriteCommittedSealsRawData ==
  <<248, 191, 248, 84, 148, 68, 173, 208, 236, 49, 15, 17, 90, 14, 96, 59, 45,
    125, 185, 240, 103, 119, 142, 175, 138, 148, 41, 79, 199, 232, 242, 43,
    59, 205, 207, 149, 93, 215, 255, 59, 162, 237, 131, 63, 130, 18, 148, 107,
    234, 174, 215, 129, 210, 210, 171, 99, 80, 245, 196, 86, 106, 44, 110,
    170, 196, 7, 166, 148, 139, 231, 104, 18, 247, 101, 194, 70, 65, 236, 99,
    220, 40, 82, 179, 120, 171, 162, 180, 64, 128, 248, 67, 184, 65, 1, 2, 3,
    0, 0, 0, 0, 0, 0, 0, 0, 0, 0, 0, 0, 0, 0, 0, 0, 0, 0, 0, 0, 0, 0, 0, 0, 0,
    0, 0, 0, 0, 0, 0, 0, 0, 0, 0, 0, 0, 0, 0, 0, 0, 0, 0, 0, 0, 0, 0, 0, 0, 0,
    0, 0, 0, 0, 0, 0, 0, 0, 0, 0, 0, 0, 192, 192, 160, 0, 0, 0, 0, 0, 0, 0, 0,
    0, 0, 0, 0, 0, 0, 0, 0, 0, 0, 0, 0, 0, 0, 0, 0, 0, 0, 0, 0, 0, 0, 0, 0>>
\* expectedSeal of TestWriteSeal: 1, 2, 3 and zeros up to the seal length
ExpectedSeal == <<1, 2, 3>> \o Zeros(IstanbulExtraSeal - 3)

RECURSIVE BigEndian(_)
BigEndian(n) == IF n = 0 THEN <<>> ELSE BigEndian(n \div 256) \o <<n % 256>>

RECURSIVE FromBigEndian(_)
FromBigEndian(b) ==
  IF b = <<>> THEN 0
  ELSE FromBigEndian(SubSeq(b, 1, Len(b) - 1)) * 256 + b[Len(b)]

RECURSIVE Concat(_)
Concat(seqs) == IF seqs = <<>> THEN <<>> ELSE Head(seqs) \o Concat(Tail(seqs))

\* rlp: a byte string
EncodeString(b) ==
  IF Len(b) = 1 /\ b[1] < 128 THEN b
  ELSE IF Len(b) < 56 THEN <<128 + Len(b)>> \o b
  ELSE <<183 + Len(BigEndian(Len(b)))>> \o BigEndian(Len(b)) \o b

\* rlp: a list with the encoded elements payload
EncodeList(payload) ==
  IF Len(payload) < 56 THEN <<192 + Len(payload)>> \o payload
  ELSE <<247 + Len(BigEndian(Len(payload)))>> \o BigEndian(Len(payload))
         \o payload

\* rlp: a list of byte strings
EncodeStrings(list) ==
  EncodeList(Concat([i \in DOMAIN list |-> EncodeString(list[i])]))

\* rlp.Encode of types.IstanbulExtra, the fields in the order of the test
\* vectors
EncodeIstanbulExtra(e) ==
  EncodeList(EncodeStrings(e.Validators)
               \o EncodeString(e.Seal)
               \o EncodeStrings(e.CommittedSeal)
               \o EncodeStrings(e.ValidatorAddr)
               \o EncodeStrings(e.ExchangerAddr)
               \o EncodeString(e.RandomHash))

NoItem == [ok |-> FALSE, list |-> FALSE, val |-> <<>>, size |-> 0]

\* the item of len bytes that starts at from
Sized(b, list, from, len) ==
  IF from + len - 1 <= Len(b)
  THEN [ok |-> TRUE, list |-> list, val |-> SubSeq(b, from, from + len - 1),
        size |-> from + len - 1]
  ELSE NoItem

\* the item whose length is written in ll bytes
Long(b, list, ll) ==
  IF 1 + ll <= Len(b)
  THEN Sized(b, list, 2 + ll, FromBigEndian(SubSeq(b, 2, 1 + ll)))
  ELSE NoItem

\* rlp: the first item of b
Item(b) ==
  IF b = <<>> THEN NoItem
  ELSE IF b[1] < 128 THEN Sized(b, FALSE, 1, 1)
  ELSE IF b[1] < 184 THEN Sized(b, FALSE, 2, b[1] - 128)
  ELSE IF b[1] < 192 THEN Long(b, FALSE, b[1] - 183)
  ELSE IF b[1] < 248 THEN Sized(b, TRUE, 2, b[1] - 192)
  ELSE Long(b, TRUE, b[1] - 247)

\* rlp: the items of a payload
RECURSIVE Items(_)
Items(b) ==
  IF b = <<>> THEN [ok |-> TRUE, items |-> <<>>]
  ELSE Once(Item(b), LAMBDA it :
         IF ~it.ok THEN [ok |-> FALSE, items |-> <<>>]
         ELSE Once(Items(SubSeq(b, it.size + 1, Len(b))), LAMBDA rest :
                [ok |-> rest.ok, items |-> <<it>> \o rest.items]))

\* rlp: a list of byte strings read from the item it
Strings(it) ==
  Once(Items(it.val), LAMBDA r :
    [ok |-> it.ok /\ it.list /\ r.ok
              /\ \A n \in DOMAIN r.items : ~r.items[n].list,
     list |-> [n \in DOMAIN r.items |-> r.items[n].val]])

ErrInvalidIstanbulHeaderExtra == "invalid istanbul header extra-data"
ErrInvalidSignature == "invalid signature"
ErrInvalidCommittedSeals == "invalid committed seals"

\* types.IstanbulExtra{}
EmptyIstanbulExtra ==
  [Validators |-> <<>>, Seal |-> <<>>, CommittedSeal |-> <<>>,
   ValidatorAddr |-> <<>>, ExchangerAddr |-> <<>>, RandomHash |-> Zeros(32)]

\* rlp.DecodeBytes into types.IstanbulExtra
DecodeIstanbulExtra(b) ==
  Once(Item(b), LAMBDA top :
    Once(Items(top.val), LAMBDA f :
      IF /\ top.ok /\ top.list /\ top.size = Len(b)
         /\ f.ok /\ Len(f.items) = 6
         /\ Strings(f.items[1]).ok
         /\ ~f.items[2].list
         /\ Strings(f.items[3]).ok
         /\ Strings(f.items[4]).ok
         /\ Strings(f.items[5]).ok
         /\ ~f.items[6].list /\ Len(f.items[6].val) = 32
      THEN [err |-> "",
            extra |-> [Validators |-> Strings(f.items[1]).list,
                       Seal |-> f.items[2].val,
                       CommittedSeal |-> Strings(f.items[3]).list,
                       ValidatorAddr |-> Strings(f.items[4]).list,
                       ExchangerAddr |-> Strings(f.items[5]).list,
                       RandomHash |-> f.items[6].val]]
      ELSE [err |-> "rlp", extra |-> EmptyIstanbulExtra]))

\* types.ExtractIstanbulExtra
ExtractIstanbulExtra(h) ==
  IF Len(h.Extra) < IstanbulExtraVanity
  THEN [err |-> ErrInvalidIstanbulHeaderExtra, extra |-> EmptyIstanbulExtra]
  ELSE DecodeIstanbulExtra(
         SubSeq(h.Extra, IstanbulExtraVanity + 1, Len(h.Extra)))

\* the vanity of the header: the first bytes of Extra, with zeros added when
\* Extra is shorter
Vanity(h) ==
  SubSeq(h.Extra \o Zeros(IstanbulExtraVanity), 1, IstanbulExtraVanity)

\* prepareExtra that writes behind all of Extra
prepareExtraBehindAll(h, validators, validatorAddr, exchangerAddr) ==
  h.Extra \o EncodeIstanbulExtra(
               [EmptyIstanbulExtra EXCEPT !.Validators = validators,
                                          !.ValidatorAddr = validatorAddr,
                                          !.ExchangerAddr = exchangerAddr])

prepareExtra(h, validators, validatorAddr, exchangerAddr) ==
  Vanity(h) \o EncodeIstanbulExtra(
                 [EmptyIstanbulExtra EXCEPT !.Validators = validators,
                                            !.ValidatorAddr = validatorAddr,
                                            !.ExchangerAddr = exchangerAddr])

\* writeSeal that takes a seal of any length
writeSealAnyLength(h, seal) ==
  Once(ExtractIstanbulExtra(h), LAMBDA r :
    IF r.err /= "" THEN [h |-> h, err |-> r.err]
    ELSE [h |-> [h EXCEPT !.Extra =
                   Vanity(h) \o EncodeIstanbulExtra(
                                  [r.extra EXCEPT !.Seal = seal])],
          err |-> ""])

writeSeal(h, seal) ==
  IF Len(seal) /= IstanbulExtraSeal
  THEN [h |-> h, err |-> ErrInvalidSignature]
  ELSE Once(ExtractIstanbulExtra(h), LAMBDA r :
         IF r.err /= "" THEN [h |-> h, err |-> r.err]
         ELSE [h |-> [h EXCEPT !.Extra =
                        Vanity(h) \o EncodeIstanbulExtra(
                                       [r.extra EXCEPT !.Seal = seal])],
               err |-> ""])

\* writeCommittedSeals that writes a fresh extra-data with the seals
writeCommittedSealsAnew(h, committedSeals) ==
  IF \/ committedSeals = <<>>
     \/ \E n \in DOMAIN committedSeals :
          Len(committedSeals[n]) /= IstanbulExtraSeal
  THEN [h |-> h, err |-> ErrInvalidCommittedSeals]
  ELSE Once(ExtractIstanbulExtra(h), LAMBDA r :
         IF r.err /= "" THEN [h |-> h, err |-> r.err]
         ELSE [h |-> [h EXCEPT !.Extra =
                        Vanity(h) \o EncodeIstanbulExtra(
                                       [EmptyIstanbulExtra EXCEPT
                                          !.CommittedSeal = committedSeals])],
               err |-> ""])

writeCommittedSeals(h, committedSeals) ==
  IF \/ committedSeals = <<>>
     \/ \E n \in DOMAIN committedSeals :
          Len(committedSeals[n]) /= IstanbulExtraSeal
  THEN [h |-> h, err |-> ErrInvalidCommittedSeals]
  ELSE Once(ExtractIstanbulExtra(h), LAMBDA r :
         IF r.err /= "" THEN [h |-> h, err |-> r.err]
         ELSE [h |-> [h EXCEPT !.Extra =
                        Vanity(h) \o EncodeIstanbulExtra(
                                       [r.extra EXCEPT
                                          !.CommittedSeal = committedSeals])],
               err |-> ""])

\* the Extra a header comes with: the vanity alone, the vanity with useless
\* bytes behind it, the extra-data of the tests, and too few bytes
Vanities == {Zeros(IstanbulExtraVanity),
             <<7>> \o Zeros(IstanbulExtraVanity - 1)}
Extras ==
  {v \o tail : v \in Vanities,
               tail \in {<<>>, Zeros(15), <<200, 1>>, WriteSealRawData,
                         WriteCommittedSealsRawData}}
    \cup {<<1, 2, 3>>}

\* the lists of validators and addresses of the model
AddressLists == {<<>>, TestValidators, <<TestValidators[2]>>}

\* seals of the right length and of other lengths
Seals ==
  {ExpectedSeal, Zeros(IstanbulExtraSeal), ExpectedSeal \o <<0>>,
   Zeros(IstanbulExtraSeal - 1), <<>>}
CommittedSealLists ==
  {<<>>, <<ExpectedSeal>>, <<Zeros(IstanbulExtraSeal), ExpectedSeal>>,
   <<ExpectedSeal \o <<0>>>>, <<ExpectedSeal, <<1>>>>}

InitExtra ==
  /\ header \in {[Extra |-> e] : e \in Extras}
  /\ staking = NoStaking
  /\ prefetcher = NoPrefetcher
  /\ snft = NoSnft
  /\ sdb = [i \in Insts |-> NoInstance]
  /\ missingNodes = {}
  /\ snapBase = HealthyRoot
  /\ panicked = ""
  /\ last = Did("New", 1)
  /\ taken = [i \in Insts |-> <<>>]
  /\ appended = 0

\* one call on the header, leaving h
ExtraCall(op, h) ==
  /\ header' = h
  /\ last' = Did(op, 1)
  /\ UNCHANGED <<sdb, missingNodes, snapBase, panicked, taken, appended,
                 snft, staking, prefetcher>>

\* engine.Prepare: header.Extra = prepareExtra(header, ...)
OpPrepareExtra ==
  \E validators \in AddressLists, others \in AddressLists :
    ExtraCall("prepareExtra",
              [header EXCEPT !.Extra =
                 prepareExtra(header, validators, others, others)])

OpWriteSeal ==
  \E seal \in Seals :
    ExtraCall(IF writeSeal(header, seal).err = "" THEN "writeSeal"
              ELSE "writeSeal fails",
              writeSeal(header, seal).h)

OpWriteCommittedSeals ==
  \E committedSeals \in CommittedSealLists :
    ExtraCall(IF writeCommittedSeals(header, committedSeals).err = ""
              THEN "writeCommittedSeals" ELSE "writeCommittedSeals fails",
              writeCommittedSeals(header, committedSeals).h)

\* useless bytes get behind the extra-data
OpAppendExtra ==
  /\ Len(header.Extra) <= IstanbulExtraVanity
  /\ ExtraCall("append", [header EXCEPT !.Extra = @ \o Zeros(15)])

NextExtra ==
  \/ OpPrepareExtra
  \/ OpWriteSeal
  \/ OpWriteCommittedSeals
  \/ OpAppendExtra

SpecExtra == InitExtra /\ [][NextExtra]_vars

\* C28: prepareExtra gives the same payload for two headers with the same
\* vanity, whatever bytes follow the vanity, and gives its own output again
\* for a header that holds its output
PrepareExtraOnlyVanity ==
  header /= NoHeader =>
    \A validators \in AddressLists, others \in AddressLists :
      LET payload == prepareExtra(header, validators, others, others) IN
      /\ \A e \in Extras :
           Vanity([Extra |-> e]) = Vanity(header) =>
             prepareExtra([Extra |-> e], validators, others, others) = payload
      /\ prepareExtra([Extra |-> payload], validators, others, others)
           = payload
      /\ prepareExtra([Extra |-> Vanity(header)], validators, others, others)
           = payload

\* a sealed header, with bytes behind the vanity that prepareExtra drops
PrepareExtraOnlyVanityWitness ==
  /\ header /= NoHeader
  /\ last.op = "writeSeal"
  /\ ExtractIstanbulExtra(header).err = ""
  /\ ExtractIstanbulExtra(header).extra.Validators = TestValidators
  /\ prepareExtra(header, TestValidators, <<>>, <<>>) /= header.Extra

\* prepareExtra on the vanity with the four validators gives the bytes
\* TestPrepareExtra expects, also with 15 useless bytes behind the vanity
PrepareExtraAsTested ==
  /\ prepareExtra([Extra |-> Zeros(IstanbulExtraVanity)], TestValidators,
                  TestValidators, TestValidators)
       = Zeros(IstanbulExtraVanity) \o PrepareExtraResult
  /\ prepareExtra([Extra |-> Zeros(IstanbulExtraVanity) \o Zeros(15)],
                  TestValidators, TestValidators, TestValidators)
       = Zeros(IstanbulExtraVanity) \o PrepareExtraResult

\* C29: writeSeal fails with ErrInvalidSignature for every seal whose length
\* is not IstanbulExtraSeal, writeCommittedSeals with
\* ErrInvalidCommittedSeals for every list with an element of another
\* length, and a call that fails leaves Extra as it was
SealLengthChecked ==
  header /= NoHeader =>
    /\ \A seal \in Seals :
         LET r == writeSeal(header, seal) IN
         /\ Len(seal) /= IstanbulExtraSeal =>
              r.err = ErrInvalidSignature
         /\ r.err /= "" => r.h.Extra = header.Extra
    /\ \A committedSeals \in CommittedSealLists :
         LET r == writeCommittedSeals(header, committedSeals) IN
         /\ (\E n \in DOMAIN committedSeals :
               Len(committedSeals[n]) /= IstanbulExtraSeal)
              => r.err = ErrInvalidCommittedSeals
         /\ r.err /= "" => r.h.Extra = header.Extra

\* a write with a wrong length has failed on a header whose extra-data
\* holds a seal and committed seals
SealLengthCheckedWitness ==
  /\ header /= NoHeader
  /\ last.op = "writeSeal fails"
  /\ ExtractIstanbulExtra(header).err = ""
  /\ ExtractIstanbulExtra(header).extra.Seal = ExpectedSeal
  /\ ExtractIstanbulExtra(header).extra.CommittedSeal /= <<>>

\* C30: after a writeSeal that succeeds, ExtractIstanbulExtra gives the seal
\* written and the other fields as they were; after a writeCommittedSeals
\* that succeeds it gives the committed seals written and the other fields
\* as they were; the vanity stays in both cases
SealRoundTrip ==
  header /= NoHeader =>
    LET before == ExtractIstanbulExtra(header) IN
    /\ \A seal \in Seals :
         LET r == writeSeal(header, seal) IN
         r.err = "" =>
           /\ before.err = ""
           /\ ExtractIstanbulExtra(r.h)
                = [err |-> "", extra |-> [before.extra EXCEPT !.Seal = seal]]
           /\ Vanity(r.h) = Vanity(header)
    /\ \A committedSeals \in CommittedSealLists :
         LET r == writeCommittedSeals(header, committedSeals) IN
         r.err = "" =>
           /\ before.err = ""
           /\ ExtractIstanbulExtra(r.h)
                = [err |-> "",
                   extra |-> [before.extra EXCEPT
                                !.CommittedSeal = committedSeals]]
           /\ Vanity(r.h) = Vanity(header)

\* committed seals have been written into an extra-data with validators,
\* addresses and a seal, behind a vanity that is not all zero
SealRoundTripWitness ==
  /\ header /= NoHeader
  /\ last.op = "writeCommittedSeals"
  /\ Vanity(header) /= Zeros(IstanbulExtraVanity)
  /\ ExtractIstanbulExtra(header).err = ""
  /\ ExtractIstanbulExtra(header).extra.Validators = TestValidators
  /\ ExtractIstanbulExtra(header).extra.ExchangerAddr /= <<>>
  /\ ExtractIstanbulExtra(header).extra.Seal = ExpectedSeal
  /\ Len(ExtractIstanbulExtra(header).extra.CommittedSeal) = 2

\* writeSeal and writeCommittedSeals on the extra-data of TestWriteSeal and
\* TestWriteCommittedSeals give what the tests expect
WritersAsTested ==
  /\ ExtractIstanbulExtra(
       writeSeal([Extra |-> Zeros(IstanbulExtraVanity) \o WriteSealRawData],
                 ExpectedSeal).h)
       = [err |-> "",
          extra |-> [EmptyIstanbulExtra EXCEPT
                       !.Validators = TestValidators, !.Seal = ExpectedSeal]]
  /\ writeSeal([Extra |-> Zeros(IstanbulExtraVanity) \o WriteSealRawData],
               ExpectedSeal \o <<0>>).err = ErrInvalidSignature
  /\ ExtractIstanbulExtra(
       writeCommittedSeals(
         [Extra |-> Zeros(IstanbulExtraVanity) \o WriteCommittedSealsRawData],
         <<ExpectedSeal>>).h)
       = [err |-> "",
          extra |-> [EmptyIstanbulExtra EXCEPT
                       !.Validators = TestValidators,
                       !.CommittedSeal = <<ExpectedSeal>>]]
  /\ writeCommittedSeals(
       [Extra |-> Zeros(IstanbulExtraVanity) \o WriteCommittedSealsRawData],
       <<ExpectedSeal \o <<0>>>>).err = ErrInvalidCommittedSeals

(***************************************************************************)
(* Errors of the trie writes a Commit makes itself.                        *)
(***************************************************************************)
\* the error Commit returns: the memoised one when it aborts at its first
\* test, otherwise the one of s.trie.Commit, which a TryUpdate or TryDelete
\* that failed before it does not cause; dbErr is not read a second time
CommitError(s, deleteEmptyObjects, order) ==
  IF CommitFails(s) THEN s.dbErr ELSE NoError

\* C31: a Commit whose own IntermediateRoot step fails to update or delete
\* an account in the trie returns an error from that same call, not a root
\* with a nil error
CommitReturnsWriteError ==
  \A d \in BOOLEAN :
    (/\ panicked = ""
     /\ sdb[1].alive
     /\ ~CommitFails(sdb[1])
     /\ ~NilPending(Finalise(sdb[1], d))
     /\ ~NilDirty(Finalise(sdb[1], d)))
    => \A order \in Orders(PendingAfterFinalise(sdb[1], d)) :
         Commit(sdb[1], d, order).dbErr /= NoError
           => CommitError(sdb[1], d, order) /= NoError

(***************************************************************************)
(* IntermediateRoot.                                                       *)
(***************************************************************************)
\* what IntermediateRoot leaves, s2, of the state s1 its Finalise left
RootWritten(s1, s2) ==
  /\ s2.stateObjectsPending = {}
  /\ s1.stateObjectsPending \subseteq s2.stateObjectsDirty
  /\ \A a \in s1.stateObjectsPending :
       /\ objAt(s2, a).deleted => s2.trie[a] = None
       /\ ~objAt(s2, a).deleted =>
            s2.trie[a] = Some(EncodeAccount(objAt(s2, a)))
       /\ IsSome(s2.trie[a]) <=> ~objAt(s2, a).deleted
  /\ \A a \in Addrs \ s1.stateObjectsPending : s2.trie[a] = s1.trie[a]

Previous(s, addr) ==
  IF IsSome(s.stateObjects[addr]) THEN s.stateObjects[addr]
  ELSE LET stored == IF s.snapOn THEN snapBase[addr] ELSE s.trie[addr]
       IN IF IsSome(stored) THEN Some(newObject(s, Get(stored))) ELSE None

\* C33: createObject(addr) appends a create entry when there is no previous
\* object at addr and a reset entry otherwise, returns the previous object
\* only when it exists and is not deleted, and under a snapshot layer puts the
\* previous object's hash into snapDestructs; reverting the entry brings the
\* previous object back (or removes the new one) and takes the hash out of
\* snapDestructs exactly when this createObject put it in
CreateObjectJournals ==
  \A a \in Addrs :
    (panicked = "" /\ sdb[1].alive) =>
      LET s == sdb[1]
          prev == Previous(s, a)
          c == createObject(s, a)
          n == Len(s.journal)
          back == revert(c.s, n)
      IN /\ Len(c.s.journal) = n + 1
         /\ SubSeq(c.s.journal, 1, n) = s.journal
         /\ c.s.journal[n + 1].account = a
         /\ c.s.journal[n + 1].kind =
              (IF prev = None THEN "createObject" ELSE "resetObject")
         /\ c.s.stateObjects[a] = Some(newObject(s, EmptyAccount))
         /\ c.prev = (IF IsSome(prev) /\ ~Get(prev).deleted THEN prev ELSE None)
         /\ c.s.snapDestructs =
              (IF s.snapOn /\ IsSome(prev) THEN s.snapDestructs \cup {a}
               ELSE s.snapDestructs)
         /\ back.stateObjects[a] = prev
         /\ back.snapDestructs = s.snapDestructs
         /\ back.journal = s.journal

\* the journal holds the reset entry of a createObject over a deleted object
\* that was already in snapDestructs, and the create entry of one at an
\* address that had no object
CreateObjectJournalsWitness ==
  /\ panicked = ""
  /\ sdb[1].snapOn
  /\ \E n, k \in DOMAIN sdb[1].journal :
       /\ sdb[1].journal[n].kind = "resetObject"
       /\ sdb[1].journal[n].prevdestruct
       /\ sdb[1].journal[n].prev.deleted
       /\ sdb[1].journal[n].account \in sdb[1].snapDestructs
       /\ sdb[1].journal[k].kind = "createObject"
       /\ IsSome(sdb[1].stateObjects[sdb[1].journal[k].account])

(***************************************************************************)
(* The SNFT tree at its full depth.  A chain that has minted n SNFTs, all  *)
(* to one owner, holds one level-2 record for every 256 of them, one       *)
(* level-1 record for every 16 of the rest and the remaining ones as       *)
(* level-0 records.                                                        *)
(***************************************************************************)
\* the records after n SNFTs of directory dir were minted to owner
MintedRecords(n, dir, owner) ==
  LET d2 == n \div (16 * 16)
      d1 == (n % (16 * 16)) \div 16
      d0 == n % 16
      at2 == {SnftBase + i * 16 * 16 : i \in 0..(d2 - 1)}
      at1 == {SnftBase + d2 * 16 * 16 + j * 16 : j \in 0..(d1 - 1)}
      at0 == {SnftBase + d2 * 16 * 16 + d1 * 16 + k : k \in 0..(d0 - 1)}
  IN [a \in at2 \cup at1 \cup at0 |->
        AccountNFT(owner,
                   IF a \in at2 THEN 2 ELSE IF a \in at1 THEN 1 ELSE 0,
                   IF a \in at2 THEN 16 * 16 ELSE IF a \in at1 THEN 16 ELSE 1,
                   Append(dir, AddrString(a)), owner)]

\* the StateDB, opened in a later block, of a chain whose genesis injected
\* total SNFTs of directory dir and that has minted n < total of them to owner
MintedTo(n, total, dir, owner) ==
  [nft |-> MintedRecords(n, dir, owner),
   noMerge |-> [a \in Accounts |-> FALSE],
   agentRecipient |-> [a \in Accounts |-> ZeroAddress],
   mint |-> Some([userMint |-> 1, officialMint |-> SnftBase + n]),
   injected |->
     IF total - n <= RemainderLow
     THEN <<[dir |-> dir, startIndex |-> SnftBase, number |-> total],
            [dir |-> DefaultDir, startIndex |-> SnftBase + total,
             number |-> DefaultNumber]>>
     ELSE <<[dir |-> dir, startIndex |-> SnftBase, number |-> total]>>,
   logs |-> <<>>, l3 |-> {}, dividend |-> {}]

\* MintedTo is what CreateNFTByOfficial16 builds: on the chain of MaxOfficial
\* SNFTs, before the first transfer or exchange
MintedAsBuilt ==
  (/\ panicked = ""
   /\ snft.mint /= None
   /\ snft.injected /= <<>>
   /\ snft.injected[1].number = MaxOfficial
   /\ Minted(snft) > 0
   /\ ~Late(snft))
  => /\ [snft EXCEPT !.logs = <<>>]
          = MintedTo(Minted(snft), MaxOfficial, <<"U">>, Owner1)
     /\ Minted(snft) + 4 = MaxOfficial =>
          LET two == <<Owner1, Owner1>>
              next == CreateNFTByOfficial16(snft, two, 1).s
          IN CreateNFTByOfficial16(next, two, 1).s.nft
               = MintedRecords(MaxOfficial, <<"U">>, Owner1)

\* the SNFTs genesis injects in the chain of full depth: one level-3 tree
DeepTotal == 16 * 16 * 16
MaxDeepCalls == 4

\* the addresses the calls work on: the last two SNFTs of the tree and the
\* addresses of the merged records above them
DeepWindow ==
  LET leaves == {SnftBase + DeepTotal - 2, SnftBase + DeepTotal - 1}
  IN leaves \cup {PadZero(Cut(a, l)) : a \in leaves, l \in 1..QUERYDEPTHLIMIT16}

\* the tree one or two SNFTs before it is complete; the first level-2 record
\* may have been transferred
InitDeep ==
  /\ \E n \in {DeepTotal - 2, DeepTotal - 1}, owner \in Accounts :
       snft = soChangeNFTOwner(MintedTo(n, DeepTotal, <<"U">>, Owner1),
                               SnftBase, owner)
  /\ staking = NoStaking
  /\ prefetcher = NoPrefetcher
  /\ header = NoHeader
  /\ sdb = [i \in Insts |-> NoInstance]
  /\ missingNodes = {}
  /\ snapBase = HealthyRoot
  /\ panicked = ""
  /\ last = Did("New", 1)
  /\ taken = [i \in Insts |-> <<>>]
  /\ appended = 0

\* one call on the SNFT part of the StateDB, leaving r.s
DeepCall(op, r) ==
  /\ panicked = ""
  /\ appended < MaxDeepCalls
  /\ snft' = r.s
  /\ panicked' = IF r.panic THEN "slice bounds out of range" ELSE ""
  /\ last' = Did(op, 1)
  /\ appended' = appended + 1
  /\ UNCHANGED <<sdb, missingNodes, snapBase, taken, staking, prefetcher,
                 header>>

DeepCreateNFTByOfficial16 ==
  \E awardee \in Accounts :
    /\ Minted(snft) < DeepTotal
    /\ DeepCall("CreateNFTByOfficial16",
                CreateNFTByOfficial16(snft, <<awardee>>, 1))

DeepChangeNFTOwner ==
  \E nftAddr \in DeepWindow, newOwner \in Accounts :
    /\ NFT(snft, nftAddr).owner /= ZeroAddress
    /\ DeepCall("ChangeNFTOwner", ChangeNFTOwner(snft, nftAddr, newOwner))

DeepExchangeNFTToCurrency ==
  \E nftaddress \in DeepWindow :
    /\ NFT(snft, nftaddress).owner /= ZeroAddress
    /\ DeepCall("ExchangeNFTToCurrency",
                ExchangeNFTToCurrency(snft, NFT(snft, nftaddress).owner,
                                      nftaddress))

DeepChangeSNFTNoMerge ==
  \E addr \in Accounts, flag \in BOOLEAN :
    DeepCall("ChangeSNFTNoMerge",
             [s |-> ChangeSNFTNoMerge(snft, addr, flag), panic |-> FALSE])

DeepMergeNFT16 ==
  \E nftAddr \in DeepWindow :
    DeepCall("MergeNFT16", MergeNFT16(snft, nftAddr))

\* the level-3 SNFTs are entered into the dividend list
DeepAddDividendAddrsOne ==
  \E snftAddr \in snft.l3 :
    DeepCall("AddDividendAddrsOne",
             [s |-> AddDividendAddrsOne(snft, snftAddr), panic |-> FALSE])

NextDeep ==
  \/ DeepCreateNFTByOfficial16
  \/ DeepChangeNFTOwner
  \/ DeepExchangeNFTToCurrency
  \/ DeepChangeSNFTNoMerge
  \/ DeepMergeNFT16
  \/ DeepAddDividendAddrsOne

SpecDeep == InitDeep /\ [][NextDeep]_vars

(***************************************************************************)
(* Exchanging an SNFT.                                                     *)
(***************************************************************************)
RECURSIVE NetWrite(_, _, _)
\* what the writes add up to for one field of one account
NetWrite(writes, field, account) ==
  IF writes = <<>> THEN ZeroValue
  ELSE IF Head(writes).field = field /\ Head(writes).account = account
  THEN Plus(Head(writes).amount, NetWrite(Tail(writes), field, account))
  ELSE NetWrite(Tail(writes), field, account)

\* the owned siblings of nftaddress: the records with an owner at the other
\* 15 addresses under its parent at its level
OwnedSiblings(s, nftaddress, mergeLevel) ==
  {a \in {SiblingAddr(Cut(nftaddress, mergeLevel + 1), mergeLevel, i) :
            i \in 0..(Siblings - 1)} \ {nftaddress} :
     NFT(s, a).owner /= ZeroAddress}

\* C34: ExchangeNFTToCurrency(owner, nft) clears the record at nft, credits
\* amount = GetExchangAmount(nft, calculateExchangeAmount(level, merge
\* number)) to the owner's balance and subtracts it from the owner's vote
\* weight, takes nft out of the level-3 and dividend lists when its level is
\* 3 or more, then runs MergeNFT16 on the first sibling that still has an
\* owner and adds the increase to that sibling's owner's vote weight; no
\* other balance changes
ExchangePaysOwner ==
  \A nft \in DeepWindow :
    LET rec == NFT(snft, nft)
        owner == rec.owner
        amount == GetExchangAmount(nft,
                    calculateExchangeAmount(rec.mergeLevel, rec.mergeNumber))
        r == ExchangeNFTToCurrency(snft, owner, nft)
        cleared == [snft EXCEPT
                      !.nft = [a \in DOMAIN @ \ {nft} |-> @[a]],
                      !.l3 = IF rec.mergeLevel >= 3 THEN @ \ {nft} ELSE @,
                      !.dividend = IF rec.mergeLevel >= 3 THEN @ \ {nft} ELSE @]
        siblings == OwnedSiblings(cleared, nft, rec.mergeLevel)
        first == CHOOSE a \in siblings : \A b \in siblings : a <= b
        merges == /\ rec.mergeLevel < QUERYDEPTHLIMIT16
                  /\ siblings /= {}
                  /\ NFT(cleared, first).mergeLevel = rec.mergeLevel
        merged == MergeNFT16(cleared, first)
        increase == IF merges THEN merged.value ELSE ZeroValue
        others == (Accounts \cup {ZeroAddress}) \ {owner}
    IN (panicked = "" /\ owner /= ZeroAddress /\ ~r.panic) =>
         /\ \A n \in DOMAIN r.writes :
              r.writes[n].field = "balance" => r.writes[n].account = owner
         /\ NetWrite(r.writes, "balance", owner) = amount
         /\ \A a \in Accounts \cup {ZeroAddress} :
              NetWrite(r.writes, "voteWeight", a) =
                Plus(IF a = owner THEN Minus(ZeroValue, amount) ELSE ZeroValue,
                     IF merges /\ a = NFT(cleared, first).owner
                     THEN increase ELSE ZeroValue)
         /\ \A a \in others : NetWrite(r.writes, "balance", a) = ZeroValue
         /\ r.s = (IF merges THEN merged.s ELSE cleared)
         /\ rec.mergeLevel >= 3 => nft \notin r.s.l3 /\ nft \notin r.s.dividend

\* an SNFT was exchanged and the siblings it left were merged, up to the
\* level-3 record
ExchangePaysOwnerWitness ==
  /\ panicked = ""
  /\ last.op = "ExchangeNFTToCurrency"
  /\ Len(snft.logs) >= 1
  /\ snft.logs[Len(snft.logs)].event = "MergeSNFT"
  /\ snft.l3 /= {}
  /\ \E a \in snft.l3 : NFT(snft, a).mergeNumber < DeepTotal

(***************************************************************************)
(* Merging conserves the SNFTs.                                            *)
(***************************************************************************)
RECURSIVE Pieces(_, _)
\* the merge numbers of the records at the addresses of S, added up
Pieces(s, S) ==
  IF S = {} THEN 0
  ELSE LET a == CHOOSE x \in S : TRUE
       IN NFT(s, a).mergeNumber + Pieces(s, S \ {a})

\* the owned records among the 16 addresses under the parent of nftAddr
OwnedChildren(s, nftAddr) ==
  {a \in SiblingsOf(s, nftAddr) : NFT(s, a).owner /= ZeroAddress}

\* C35: a merge step clears exactly the owned children of the parent and
\* gives the parent record the sum of their merge numbers, so that the merge
\* numbers of all owned SNFT records add up to the same before and after any
\* MergeNFT16, its recursive steps included; the MergeSNFT log lists exactly
\* the cleared children with their numbers
MergeConservesPieces ==
  \A a \in DeepWindow :
    panicked = "" =>
      /\ LET r == MergeNFT16(snft, a)
         IN ~r.panic =>
              Pieces(r.s, OwnedSNFTs(r.s)) = Pieces(snft, OwnedSNFTs(snft))
      /\ IsCanMergeNFT16(snft, a) =>
           LET step == mergeSiblings(snft, a)
               children == OwnedChildren(snft, a)
               parent == step.newMergedAddr
               log == step.s.logs[Len(step.s.logs)]
           IN ~step.panic =>
                /\ \A c \in children \ {parent} : c \notin DOMAIN step.s.nft
                /\ \A c \in DOMAIN snft.nft \ (children \cup {parent}) :
                     /\ c \in DOMAIN step.s.nft
                     /\ step.s.nft[c] = snft.nft[c]
                /\ DOMAIN step.s.nft \subseteq DOMAIN snft.nft \cup {parent}
                /\ NFT(step.s, parent).mergeNumber = Pieces(snft, children)
                /\ NFT(step.s, parent).mergeLevel = NFT(snft, a).mergeLevel + 1
                /\ Len(step.s.logs) = Len(snft.logs) + 1
                /\ log.pieces = Pieces(snft, children)
                /\ {log.subNFTs[n] : n \in DOMAIN log.subNFTs}
                     = {[address |-> c, number |-> NFT(snft, c).mergeNumber] :
                          c \in children}
                /\ Len(log.subNFTs) = Cardinality(children)

\* a MergeNFT16 merged in three steps, up to a level-3 record that holds
\* the pieces of the whole tree
MergeConservesPiecesWitness ==
  /\ panicked = ""
  /\ last.op = "MergeNFT16"
  /\ Len(snft.logs) >= 3
  /\ \E a \in snft.l3 :
       /\ NFT(snft, a).mergeLevel = 3
       /\ NFT(snft, a).mergeNumber = DeepTotal
       /\ snft.logs[Len(snft.logs)].pieces = DeepTotal

(***************************************************************************)
(* The depth of a merge.                                                   *)
(***************************************************************************)
\* the addresses that hold a record of level 3
Level3(s) == {a \in DOMAIN s.nft : s.nft[a].mergeLevel = QUERYDEPTHLIMIT16}

\* C36: every MergeNFT16 makes at most 3 merge steps before it returns, no
\* SNFT record has a merge level above 3, and an address enters the
\* SNFTLevel3AddressList exactly when a merge step produces a record of
\* merge level 3
MergeDepthBounded ==
  /\ \A a \in DOMAIN snft.nft : snft.nft[a].mergeLevel <= QUERYDEPTHLIMIT16
  /\ \A a \in DeepWindow :
       panicked = "" =>
         /\ LET r == MergeNFT16(snft, a)
            IN /\ Len(r.s.logs) - Len(snft.logs) <= QUERYDEPTHLIMIT16
               /\ \A n \in DOMAIN r.s.logs :
                    n > Len(snft.logs) => r.s.logs[n].event = "MergeSNFT"
               /\ \A b \in DOMAIN r.s.nft :
                    r.s.nft[b].mergeLevel <= QUERYDEPTHLIMIT16
               /\ ~r.panic =>
                    r.s.l3 \ snft.l3 = Level3(r.s) \ Level3(snft)
         /\ IsCanMergeNFT16(snft, a) =>
              LET step == mergeSiblings(snft, a)
              IN ~step.panic =>
                   /\ NFT(snft, a).mergeLevel < QUERYDEPTHLIMIT16
                   /\ step.s.l3 =
                        (IF NFT(step.s, step.newMergedAddr).mergeLevel
                              = QUERYDEPTHLIMIT16
                         THEN snft.l3 \cup {step.newMergedAddr}
                         ELSE snft.l3)

\* the mint of the last SNFT of the tree merged in three steps, and the
\* level-3 record it left is in the list
MergeDepthBoundedWitness ==
  /\ panicked = ""
  /\ appended = 1
  /\ last.op = "CreateNFTByOfficial16"
  /\ Len(snft.logs) = QUERYDEPTHLIMIT16
  /\ snft.l3 = {SnftBase}
  /\ NFT(snft, SnftBase).mergeLevel = QUERYDEPTHLIMIT16
  /\ ~IsCanMergeNFT16(snft, SnftBase)

(***************************************************************************)
(* The pending and the dirty addresses are live.  Writes, revisions,       *)
(* Finalise, IntermediateRoot and Commit on a state and on its copy.       *)
(***************************************************************************)
NextLive ==
  \/ OpCopy(1)
  \/ \E i \in Insts :
       \/ \E a \in Addrs : OpAddBalance(i, a, 1)
       \/ OpAddBalance(i, ripemd, 0)
       \/ OpSuicide(i, 1)
       \/ sdb[i].nextRevisionId = 0 /\ OpSnapshot(i)
       \/ ~RevertPanics(sdb[i], 0) /\ OpRevertToSnapshot(i, 0)
       \/ \E d \in BOOLEAN : OpFinalise(i, d)
       \/ OpIntermediateRoot(i, FALSE)
       \/ OpCommit(i, TRUE)

SpecLive == Init /\ [][NextLive]_vars

\* C37: every address in stateObjectsPending or stateObjectsDirty has an
\* object in stateObjects, in every state reached by writes, Snapshot and
\* RevertToSnapshot, Finalise, IntermediateRoot, Commit and Copy, so that
\* IntermediateRoot and Commit never dereference a missing object
PendingAndDirtyLive ==
  /\ panicked /= "nil pointer dereference"
  /\ \A i \in Insts :
       sdb[i].alive =>
         \A a \in sdb[i].stateObjectsPending \cup sdb[i].stateObjectsDirty :
           IsSome(sdb[i].stateObjects[a])

PendingAndDirtyLiveWitness ==
  /\ panicked = ""
  /\ last.op = "RevertToSnapshot"
  /\ last.undone > 0
  /\ \E i \in Insts :
       /\ sdb[i].alive
       /\ sdb[i].stateObjects[ripemd] = None
       /\ sdb[i].dirties[ripemd] > 0
       /\ sdb[i].stateObjectsPending /= {}
       /\ \E a \in sdb[i].stateObjectsDirty : objAt(sdb[i], a).deleted

(***************************************************************************)
(* The logs of a block: transactions are prepared one after another, logs  *)
(* are added and taken back by reverts, on an instance and on its copy.    *)
(***************************************************************************)
NextLogs ==
  \/ OpCopy(1)
  \/ \E i \in Insts :
       \/ \E h \in TxHashes : OpPrepare(i, h, h)
       \/ OpAddLog(i)
       \/ sdb[i].nextRevisionId = 0 /\ OpSnapshot(i)
       \/ ~RevertPanics(sdb[i], 0) /\ OpRevertToSnapshot(i, 0)
       \/ OpFinalise(i, FALSE)

SpecLogs == Init /\ [][NextLogs]_vars

\* the stored logs of an instance, each as <<transaction hash, position>>
StoredLogs(s) == {<<h, n>> \in TxHashes \X (1..MaxLogs + 1) : n <= Len(s.logs[h])}

\* C38: in every state reached by Prepare, AddLog, Snapshot, RevertToSnapshot,
\* Finalise and Copy, logSize is the number of logs stored over all
\* transaction hashes, the logs carry the distinct indices 0..logSize-1,
\* within a transaction in the order they were added, and the next log added
\* gets the index logSize, above every stored one
LogSizeCountsLogs ==
  \A i \in Insts :
    sdb[i].alive =>
      LET s == sdb[i]
          index(l) == s.logs[l[1]][l[2]].Index
      IN /\ Cardinality(StoredLogs(s)) = s.logSize
         /\ {index(l) : l \in StoredLogs(s)} = 0..(s.logSize - 1)
         /\ \A l, k \in StoredLogs(s) :
              l[1] = k[1] /\ l[2] < k[2] => index(l) < index(k)
         /\ LET added == AddLog(s).logs[s.thash] IN
              /\ added[Len(added)].Index = s.logSize
              /\ AddLog(s).logSize = s.logSize + 1

\* both instances hold logs under both hashes, the first hash's log added
\* after the second's on one of them, and a revert has just taken a log back
LogSizeCountsLogsWitness ==
  /\ last.op = "RevertToSnapshot"
  /\ last.undone > 0
  /\ sdb[2].alive
  /\ \E i \in Insts :
       /\ sdb[i].logSize = 1
       /\ sdb[3 - i].logSize = MaxLogs
       /\ Len(sdb[3 - i].logs[0]) = 1
       /\ Len(sdb[3 - i].logs[1]) = 1
       /\ sdb[3 - i].logs[0][1].Index = 1

(***************************************************************************)
(* The getters that go through GetOrNew...StateObject, called between      *)
(* writes, snapshots and reverts.                                          *)
(***************************************************************************)
OpGetPledgedBalance(i, addr) ==
  Call(i, [Did("GetPledgedBalance", i) EXCEPT !.want = Some(addr)],
       GetPledgedBalance(sdb[i], addr), taken[i])

OpIsExistNFT(i, addr) ==
  Call(i, [Did("IsExistNFT", i) EXCEPT !.want = Some(addr)],
       IsExistNFT(sdb[i], addr), taken[i])

NextGetters ==
  \/ \E a \in Addrs : OpGetPledgedBalance(1, a)
  \/ \E a \in Addrs : OpIsExistNFT(1, a)
  \/ \E a \in Addrs : OpAddBalance(1, a, 1)
  \/ \E a \in Addrs : OpSuicide(1, a)
  \/ OpSnapshot(1)
  \/ \E id \in 0..MaxRevisions : OpRevertToSnapshot(1, id)
  \/ OpFinalise(1, TRUE)

SpecGetters == Init /\ [][NextGetters]_vars

\* the journal of t is the journal of s and one entry of the kind given
Journalled(s, t, kind, addr) ==
  /\ Len(t.journal) = Len(s.journal) + 1
  /\ SubSeq(t.journal, 1, Len(s.journal)) = s.journal
  /\ t.journal[Len(t.journal)].kind = kind
  /\ t.journal[Len(t.journal)].account = addr

GetVoteWeight(s, addr) == s.voteWeight[addr]

\* C40: VoteOfficialNFT, accepted or refused, leaves the vote weight and the
\* vote block number of the candidate's account and of the nominee's account
\* as they were: GetVoteWeight of both returns after the call what it
\* returned before
VoteKeepsWeights ==
  staking /= NoStaking =>
    \A nominated \in Candidates, blocknumber \in Blocks, shared \in BOOLEAN :
      LET r == VoteOfficialNFT(staking, nominated, blocknumber, shared)
          both == {nominated.address, staking.nominee.address} \ {ZeroAddress}
      IN \A a \in both :
           /\ GetVoteWeight(r.s, a) = GetVoteWeight(staking, a)
           /\ r.s.voteBlockNumber[a] = staking.voteBlockNumber[a]

====
